---- MODULE Spec2Model ----
(***************************************************************************)
(* Checkout / inventory consistency core of the restaurant application.    *)
(*                                                                         *)
(* The store is a Postgres database used at its default isolation level    *)
(* (READ COMMITTED): every statement sees what was committed when it       *)
(* started plus the writes of its own transaction, an UPDATE takes the     *)
(* row lock and waits for a concurrent holder, then re-evaluates its WHERE *)
(* clause on the latest committed row version, and a wait cycle is broken  *)
(* by the deadlock detector, which makes one statement fail.               *)
(* The committed tables are the variables Products, RawMaterials,          *)
(* ProductIngredients and Sales; the uncommitted writes of a checkout      *)
(* transaction are kept apart (txSales, txSellCount, txQuantity) together  *)
(* with the row locks it holds, and are applied by COMMIT or dropped by    *)
(* ROLLBACK.                                                               *)
(***************************************************************************)
EXTENDS Integers, Sequences, FiniteSets, TLC

(***************************************************************************)
(* Bounds of the model                                                     *)
(***************************************************************************)
MaxLines == 2          \* lines in one raw cart
MaxQty == 2            \* quantity of one cart line
MaxAdminRequests == 1  \* raw-material admin requests in one behaviour

Txs == {1, 2}          \* concurrent checkout requests
Requests == {1, 2}     \* concurrent requests to the serverless handler
ProductIds == {"A", "B"}
MaterialIds == {"M", "N"}

\* Amounts (cart line quantities, stock, sell counts, totals) are JavaScript
\* numbers and DOUBLE PRECISION columns; they are counted in halves of a unit,
\* so that the non-integer quantity 1.5 is the integer Units(1) + 1.  Rates
\* (quantity_used, prices, unit costs) multiply amounts and are plain numbers.
Units(n) == 2 * n
\* Number.isInteger; what an INTEGER column accepts
IsInteger(amount) == amount % 2 = 0

InitStockM == {Units(6), Units(7)}   \* initial quantity_available of M
InitStockN == {Units(2)}             \* initial quantity_available of N
AdminQuantities == {"-1", "3"}        \* quantity_available values an admin request may carry
Undefined == "undefined"        \* a field absent from a request body
NewMaterialId == "K"            \* id (uuid) given to a created raw material

(***************************************************************************)
(* Initial catalogue                                                       *)
(***************************************************************************)
InitIngredients ==
  << [product_id |-> "A", raw_material_id |-> "M", quantity_used |-> 3],
     [product_id |-> "B", raw_material_id |-> "N", quantity_used |-> 1],
     [product_id |-> "B", raw_material_id |-> "M", quantity_used |-> 1] >>

InitProducts ==
  [p \in ProductIds |->
     IF p = "A"
     THEN [selling_price |-> 5, manufacturing_cost |-> 3, sell_count |-> 0]
     ELSE [selling_price |-> 3, manufacturing_cost |-> 2, sell_count |-> 0]]

InitRawMaterials(qM, qN) ==
  [m \in MaterialIds |->
     [name |-> m, unit |-> "kg", cost_per_unit |-> 1, low_stock_threshold |-> Units(10),
      quantity_available |-> IF m = "M" THEN qM ELSE qN]]

CartLines == [product_id : ProductIds, quantity : {Units(k) : k \in 1..MaxQty}]
Carts == UNION {[1..n -> CartLines] : n \in 1..MaxLines}

(***************************************************************************)
(* Helpers                                                                 *)
(***************************************************************************)
RECURSIVE SumSeq(_)
SumSeq(s) == IF s = <<>> THEN 0 ELSE Head(s) + SumSeq(Tail(s))

RECURSIVE SumOver(_, _)
SumOver(f, S) ==
  IF S = {} THEN 0
  ELSE LET x == CHOOSE y \in S : TRUE IN f[x] + SumOver(f, S \ {x})

\* Map.set(key, (Map.get(key) || 0) + value) on an insertion-ordered Map kept
\* as a sequence of <<key, value>> entries
MapAdd(map, key, value) ==
  IF \E i \in 1..Len(map) : map[i][1] = key
  THEN [i \in 1..Len(map) |->
          IF map[i][1] = key THEN <<key, map[i][2] + value>> ELSE map[i]]
  ELSE Append(map, <<key, value>>)

\* Map.set(key, value): a later entry overwrites the earlier one
MapSet(map, key, value) ==
  IF \E i \in 1..Len(map) : map[i][1] = key
  THEN [i \in 1..Len(map) |->
          IF map[i][1] = key THEN <<key, value>> ELSE map[i]]
  ELSE Append(map, <<key, value>>)

(***************************************************************************)
(* parseCheckoutItems                                                      *)
(***************************************************************************)
\* !productId || !Number.isFinite(quantity) || quantity <= 0, negated; every
\* number of the model is finite
ValidItem(item) ==
  /\ item.product_id # ""
  /\ item.quantity > 0

\* byProduct.set(productId, quantity): the last line of a product replaces the earlier ones
RECURSIVE MergeByProduct_Overwrite(_, _)
MergeByProduct_Overwrite(rawItems, byProduct) ==
  IF rawItems = <<>> THEN byProduct
  ELSE MergeByProduct_Overwrite(Tail(rawItems),
         MapSet(byProduct, Head(rawItems).product_id, Head(rawItems).quantity))

RECURSIVE MergeByProduct(_, _)
MergeByProduct(rawItems, byProduct) ==
  IF rawItems = <<>> THEN byProduct
  ELSE MergeByProduct(Tail(rawItems),
         MapAdd(byProduct, Head(rawItems).product_id, Head(rawItems).quantity))

\* only the first line of the cart is validated
parseCheckoutItems_FirstLineOnly(rawItems) ==
  IF Len(rawItems) = 0 \/ ~ValidItem(rawItems[1])
  THEN [ok |-> FALSE, items |-> <<>>]
  ELSE LET byProduct == MergeByProduct(rawItems, <<>>)
       IN [ok |-> TRUE,
           items |-> [i \in 1..Len(byProduct) |->
                        [product_id |-> byProduct[i][1], quantity |-> byProduct[i][2]]]]

parseCheckoutItems(rawItems) ==
  IF Len(rawItems) = 0 \/ \E i \in 1..Len(rawItems) : ~ValidItem(rawItems[i])
  THEN [ok |-> FALSE, items |-> <<>>]
  ELSE LET byProduct == MergeByProduct(rawItems, <<>>)
       IN [ok |-> TRUE,
           items |-> [i \in 1..Len(byProduct) |->
                        [product_id |-> byProduct[i][1], quantity |-> byProduct[i][2]]]]

(***************************************************************************)
(* State                                                                   *)
(***************************************************************************)
VARIABLES
  Products,            \* committed Products rows: id -> row
  RawMaterials,        \* committed RawMaterials rows: id -> row
  ProductIngredients,  \* committed ProductIngredients rows, in table order
  Sales,               \* committed Sales rows
  pc,                  \* position of each checkout request
  rawItems,            \* the cart each request was called with
  parsedItems,         \* executeCheckout: items, the merged lines of the cart
  productById,         \* executeCheckout: result of the Products query
  ingredientRows,      \* executeCheckout: result of the ingredient query
  requiredAmounts,     \* executeCheckout: requiredByMaterial, in insertion order
  loopIdx,             \* executeCheckout: index of the running for-loop
  txSales,             \* uncommitted Sales inserts of each transaction
  txSellCount,         \* uncommitted sell_count increments of each transaction
  txQuantity,          \* uncommitted quantity_available decrements of each transaction
  locks,               \* row locks held by each transaction
  result,              \* what executeCheckout returned or threw
  before,              \* the committed store when the request was made
  after,               \* the committed store when the request ended
  store0,              \* the committed store of the initial state
  adminPc,             \* position of the raw-material admin request
  adminReq,            \* body of the raw-material admin request
  adminExisting,       \* PUT /api/raw-materials/:id: the row read first
  adminCount,          \* raw-material admin requests made so far
  prodPc,              \* position of the product admin request
  prodReq,             \* id and body of the product admin request
  prodExisting,        \* PUT /api/products/:id: the row read first
  prodCount,           \* product admin requests made so far
  prodResponse,        \* status and error of the last product admin response
  ingredientCost,      \* per product: sum of quantity_used * cost_per_unit over its
                       \* ingredient rows when its ingredient set was last written
  txCalls,             \* withTransaction: each call's position, caught error,
                       \* statements sent on its client and releases of the client
  initPromise,         \* server.js: the promise of initializeSchema, once made
  initStarts,          \* calls of initializeSchema so far
  requests             \* serverless handler: each request's url, handler and position

dbVars == <<Products, RawMaterials, ProductIngredients, Sales>>
txVars == <<pc, rawItems, parsedItems, productById, ingredientRows, requiredAmounts, loopIdx,
            txSales, txSellCount, txQuantity, locks, result, before, after>>
adminVars == <<adminPc, adminReq, adminExisting, adminCount>>
serverVars == <<initPromise, initStarts, requests>>
catalogVars == <<prodPc, prodReq, prodExisting, prodCount, prodResponse, ingredientCost>>
vars == <<Products, RawMaterials, ProductIngredients, Sales,
          pc, rawItems, parsedItems, productById, ingredientRows, requiredAmounts, loopIdx,
          txSales, txSellCount, txQuantity, locks, result, before, after,
          store0, adminPc, adminReq, adminExisting, adminCount,
          prodPc, prodReq, prodExisting, prodCount, prodResponse, ingredientCost, txCalls,
          initPromise, initStarts, requests>>

Store ==
  [Products |-> Products, RawMaterials |-> RawMaterials,
   ProductIngredients |-> ProductIngredients, Sales |-> Sales]

NoResult == [kind |-> "none", details |-> <<>>]
\* a request the serverless handler has not been called with
NoRequest == [pc |-> "idle", url |-> <<>>, handler |-> ""]
\* no product admin response has been sent
NoResponse == [status |-> 0, error |-> ""]
\* a call of withTransaction that has not been made
NoCall ==
  [pc |-> "idle", statements |-> <<>>, failed |-> {}, err |-> "none",
   releases |-> 0, outcome |-> [kind |-> "none", value |-> "none"]]
NoStore == [Products |-> <<>>, RawMaterials |-> <<>>, ProductIngredients |-> <<>>, Sales |-> {}]

(***************************************************************************)
(* executeCheckout: the computations between the statements                *)
(***************************************************************************)
\* SELECT ... FROM Products WHERE id IN (productIds); productById
ResolveProducts(products, items) ==
  [p \in {items[i].product_id : i \in 1..Len(items)} \cap DOMAIN products |->
     [selling_price |-> products[p].selling_price,
      manufacturing_cost |-> products[p].manufacturing_cost,
      profit_per_item |-> products[p].selling_price - products[p].manufacturing_cost]]

\* the cart passes when one of its products exists
AllProductsExist_Any(byId, items) ==
  \E i \in 1..Len(items) : items[i].product_id \in DOMAIN byId

AllProductsExist(byId, items) ==
  \A i \in 1..Len(items) : items[i].product_id \in DOMAIN byId

\* SELECT ... FROM ProductIngredients pi JOIN RawMaterials rm ... WHERE pi.product_id IN (productIds)
IngredientQuery(ingredients, materials, items) ==
  LET ids == {items[i].product_id : i \in 1..Len(items)}
      hit(r) == r.product_id \in ids /\ r.raw_material_id \in DOMAIN materials
      rows == SelectSeq(ingredients, hit)
  IN [i \in 1..Len(rows) |->
        [product_id |-> rows[i].product_id,
         raw_material_id |-> rows[i].raw_material_id,
         quantity_used |-> rows[i].quantity_used,
         raw_material_name |-> materials[rows[i].raw_material_id].name,
         raw_material_unit |-> materials[rows[i].raw_material_id].unit,
         quantity_available |-> materials[rows[i].raw_material_id].quantity_available]]

\* materialMeta: the last row of a material wins
RECURSIVE MaterialMeta(_, _)
MaterialMeta(rows, meta) ==
  IF rows = <<>> THEN meta
  ELSE MaterialMeta(Tail(rows),
         MapSet(meta, Head(rows).raw_material_id,
                [name |-> Head(rows).raw_material_name,
                 unit |-> Head(rows).raw_material_unit,
                 available |-> Head(rows).quantity_available]))

\* requiredByMaterial.set(id, needed): the need of a later line replaces the earlier one
RECURSIVE AddIngredients_Overwrite(_, _, _)
AddIngredients_Overwrite(ingredients, quantity, required) ==
  IF ingredients = <<>> THEN required
  ELSE AddIngredients_Overwrite(Tail(ingredients), quantity,
         MapSet(required, Head(ingredients).raw_material_id,
                Head(ingredients).quantity_used * quantity))

\* needed = Number(ing.quantity_used): the line quantity is left out
RECURSIVE AddIngredients_IgnoreQuantity(_, _, _)
AddIngredients_IgnoreQuantity(ingredients, quantity, required) ==
  IF ingredients = <<>> THEN required
  ELSE AddIngredients_IgnoreQuantity(Tail(ingredients), quantity,
         MapAdd(required, Head(ingredients).raw_material_id,
                Head(ingredients).quantity_used))

\* the needs of one cart line, in the order of its ingredient rows
RECURSIVE AddIngredients(_, _, _)
AddIngredients(ingredients, quantity, required) ==
  IF ingredients = <<>> THEN required
  ELSE AddIngredients(Tail(ingredients), quantity,
         MapAdd(required, Head(ingredients).raw_material_id,
                Head(ingredients).quantity_used * quantity))

\* requiredByMaterial, in insertion order
RECURSIVE RequiredByMaterial(_, _, _)
RequiredByMaterial(items, rows, required) ==
  IF items = <<>> THEN required
  ELSE LET item == Head(items)
           ofItem(r) == r.product_id = item.product_id
       IN RequiredByMaterial(Tail(items), rows,
            AddIngredients(SelectSeq(rows, ofItem), item.quantity, required))

MetaOf(meta, materialId) ==
  LET i == CHOOSE k \in 1..Len(meta) : meta[k][1] = materialId IN meta[i][2]

\* if (required >= meta.available): a cart that needs exactly what is there is refused
RECURSIVE Insufficiencies_Strict(_, _)
Insufficiencies_Strict(required, meta) ==
  IF required = <<>> THEN <<>>
  ELSE LET materialId == Head(required)[1]
           req == Head(required)[2]
           rest == Insufficiencies_Strict(Tail(required), meta)
       IN IF ~(\E k \in 1..Len(meta) : meta[k][1] = materialId) THEN rest
          ELSE IF req >= MetaOf(meta, materialId).available
               THEN <<[raw_material_id |-> materialId,
                       raw_material_name |-> MetaOf(meta, materialId).name,
                       required |-> req,
                       available |-> MetaOf(meta, materialId).available,
                       unit |-> MetaOf(meta, materialId).unit]>> \o rest
               ELSE rest

\* the loop leaves at the first shortfall
RECURSIVE Insufficiencies_FirstOnly(_, _)
Insufficiencies_FirstOnly(required, meta) ==
  IF required = <<>> THEN <<>>
  ELSE LET materialId == Head(required)[1]
           req == Head(required)[2]
       IN IF ~(\E k \in 1..Len(meta) : meta[k][1] = materialId)
          THEN Insufficiencies_FirstOnly(Tail(required), meta)
          ELSE IF req > MetaOf(meta, materialId).available
               THEN <<[raw_material_id |-> materialId,
                       raw_material_name |-> MetaOf(meta, materialId).name,
                       required |-> req,
                       available |-> MetaOf(meta, materialId).available,
                       unit |-> MetaOf(meta, materialId).unit]>>
               ELSE Insufficiencies_FirstOnly(Tail(required), meta)

\* insufficiencies
RECURSIVE Insufficiencies(_, _)
Insufficiencies(required, meta) ==
  IF required = <<>> THEN <<>>
  ELSE LET materialId == Head(required)[1]
           req == Head(required)[2]
           rest == Insufficiencies(Tail(required), meta)
       IN IF ~(\E k \in 1..Len(meta) : meta[k][1] = materialId) THEN rest
          ELSE IF req > MetaOf(meta, materialId).available
               THEN <<[raw_material_id |-> materialId,
                       raw_material_name |-> MetaOf(meta, materialId).name,
                       required |-> req,
                       available |-> MetaOf(meta, materialId).available,
                       unit |-> MetaOf(meta, materialId).unit]>> \o rest
               ELSE rest

\* line_profit = Number(p.selling_price) * Number(item.quantity)
SaleRow_ProfitOfPrice(t, i, item, byId) ==
  [id |-> <<t, i>>,
   product_id |-> item.product_id,
   quantity |-> item.quantity,
   total_price |-> byId[item.product_id].selling_price * item.quantity,
   total_profit |-> byId[item.product_id].selling_price * item.quantity]

\* the Sales row inserted for one merged cart line
SaleRow(t, i, item, byId) ==
  [id |-> <<t, i>>,
   product_id |-> item.product_id,
   quantity |-> item.quantity,
   total_price |-> byId[item.product_id].selling_price * item.quantity,
   total_profit |-> byId[item.product_id].profit_per_item * item.quantity]

\* Sales.quantity INTEGER NOT NULL: a non-integer quantity is refused
SalesAccepts(row) == IsInteger(row.quantity)

\* WHERE id = ?: the decrement without its condition
ConditionalDecrementMatches_Unconditional(materials, materialId, required) ==
  materialId \in DOMAIN materials

\* WHERE id = ? AND quantity_available >= ?
ConditionalDecrementMatches(materials, materialId, required) ==
  /\ materialId \in DOMAIN materials
  /\ materials[materialId].quantity_available >= required

Items(t) == parsedItems[t]
Required(t) == requiredAmounts[t]

\* sum of quantity_used * cost_per_unit over the ingredient rows of product p
IngredientsCost(rows, materials, p) ==
  SumSeq([k \in 1..Len(rows) |->
            IF rows[k].product_id = p
            THEN rows[k].quantity_used * materials[rows[k].raw_material_id].cost_per_unit
            ELSE 0])

(***************************************************************************)
(* Initial state                                                           *)
(***************************************************************************)
Init ==
  /\ Products = InitProducts
  /\ \E qM \in InitStockM, qN \in InitStockN : RawMaterials = InitRawMaterials(qM, qN)
  /\ ProductIngredients = InitIngredients
  /\ Sales = {}
  /\ pc = [t \in Txs |-> "idle"]
  /\ rawItems = [t \in Txs |-> <<>>]
  /\ parsedItems = [t \in Txs |-> <<>>]
  /\ productById = [t \in Txs |-> <<>>]
  /\ ingredientRows = [t \in Txs |-> <<>>]
  /\ requiredAmounts = [t \in Txs |-> <<>>]
  /\ loopIdx = [t \in Txs |-> 0]
  /\ txSales = [t \in Txs |-> {}]
  /\ txSellCount = [t \in Txs |-> <<>>]
  /\ txQuantity = [t \in Txs |-> <<>>]
  /\ locks = [t \in Txs |-> {}]
  /\ result = [t \in Txs |-> NoResult]
  /\ before = [t \in Txs |-> NoStore]
  /\ after = [t \in Txs |-> NoStore]
  /\ store0 = Store
  /\ adminPc = "idle"
  /\ adminReq = <<>>
  /\ adminExisting = <<>>
  /\ adminCount = 0
  /\ prodPc = "idle"
  /\ prodReq = <<>>
  /\ prodExisting = <<>>
  /\ prodCount = 0
  /\ prodResponse = NoResponse
  /\ ingredientCost =
       [p \in DOMAIN Products |-> IngredientsCost(ProductIngredients, RawMaterials, p)]
  /\ txCalls = [c \in Txs |-> NoCall]
  /\ initPromise = "undefined"
  /\ initStarts = 0
  /\ requests = [r \in Requests |-> NoRequest]

(***************************************************************************)
(* Row locks                                                               *)
(***************************************************************************)
ProductRow(p) == <<"Products", p>>
MaterialRow(m) == <<"RawMaterials", m>>

LockedByOther(t, row) == \E u \in Txs \ {t} : row \in locks[u]
Locked(row) == \E u \in Txs : row \in locks[u]

\* the row whose lock the next statement of t needs, if that statement is an UPDATE
NeededRow(t) ==
  IF pc[t] = "update_sell_count" THEN ProductRow(Items(t)[loopIdx[t]].product_id)
  ELSE MaterialRow(Required(t)[loopIdx[t]][1])

Waiting(t) ==
  /\ pc[t] \in {"update_sell_count", "decrement"}
  /\ LockedByOther(t, NeededRow(t))

(***************************************************************************)
(* executeCheckout inside withTransaction, one action per awaited statement *)
(***************************************************************************)
\* parseCheckoutItems, pool.connect(), BEGIN
Start(t, raw) ==
  /\ pc[t] = "idle"
  /\ rawItems' = [rawItems EXCEPT ![t] = raw]
  /\ parsedItems' = [parsedItems EXCEPT ![t] = parseCheckoutItems(raw).items]
  /\ before' = [before EXCEPT ![t] = Store]
  /\ IF parseCheckoutItems(raw).ok
     THEN /\ pc' = [pc EXCEPT ![t] = "select_products"]
          /\ UNCHANGED <<result, after>>
     ELSE /\ pc' = [pc EXCEPT ![t] = "done"]
          /\ result' = [result EXCEPT ![t] = [kind |-> "validation", details |-> <<>>]]
          /\ after' = [after EXCEPT ![t] = Store]
  /\ UNCHANGED <<dbVars, productById, ingredientRows, requiredAmounts, loopIdx,
                 txSales, txSellCount, txQuantity, locks,
                 store0, txCalls, serverVars, adminVars, catalogVars>>

\* tx.all(SELECT ... FROM Products ...) and the productById.has loop
SelectProducts(t) ==
  /\ pc[t] = "select_products"
  /\ LET byId == ResolveProducts(Products, Items(t))
     IN /\ productById' = [productById EXCEPT ![t] = byId]
        /\ IF AllProductsExist(byId, Items(t))
           THEN /\ pc' = [pc EXCEPT ![t] = "select_ingredients"]
                /\ result' = result
           ELSE /\ pc' = [pc EXCEPT ![t] = "rollback"]
                /\ result' = [result EXCEPT ![t] = [kind |-> "not_found", details |-> <<>>]]
  /\ UNCHANGED <<dbVars, rawItems, parsedItems, ingredientRows, requiredAmounts, loopIdx,
                 txSales, txSellCount, txQuantity, locks, before, after,
                 store0, txCalls, serverVars, adminVars, catalogVars>>

\* tx.all(SELECT ... FROM ProductIngredients ...), requiredByMaterial, insufficiencies;
\* each value is computed once and named
SelectIngredients(t) ==
  /\ pc[t] = "select_ingredients"
  /\ \E items \in {Items(t)} :
     \E rows \in {IngredientQuery(ProductIngredients, RawMaterials, items)} :
     \E required \in {RequiredByMaterial(items, rows, <<>>)} :
     \E materialMeta \in {MaterialMeta(rows, <<>>)} :
     \E insufficiencies \in {Insufficiencies(required, materialMeta)} :
        /\ ingredientRows' = [ingredientRows EXCEPT ![t] = rows]
        /\ requiredAmounts' = [requiredAmounts EXCEPT ![t] = required]
        /\ IF Len(insufficiencies) > 0
           THEN /\ pc' = [pc EXCEPT ![t] = "rollback"]
                /\ result' = [result EXCEPT ![t] =
                                [kind |-> "insufficient", details |-> insufficiencies]]
                /\ loopIdx' = loopIdx
           ELSE /\ pc' = [pc EXCEPT ![t] = "insert_sale"]
                /\ result' = result
                /\ loopIdx' = [loopIdx EXCEPT ![t] = 1]
  /\ UNCHANGED <<dbVars, rawItems, parsedItems, productById,
                 txSales, txSellCount, txQuantity, locks, before, after,
                 store0, txCalls, serverVars, adminVars, catalogVars>>

\* dbRun(INSERT INTO Sales ...): the insert on the pool, outside the transaction
InsertSale_Autocommit(t) ==
  /\ pc[t] = "insert_sale"
  /\ IF SalesAccepts(SaleRow(t, loopIdx[t], Items(t)[loopIdx[t]], productById[t]))
     THEN /\ Sales' = Sales \cup {SaleRow(t, loopIdx[t], Items(t)[loopIdx[t]], productById[t])}
          /\ pc' = [pc EXCEPT ![t] = "update_sell_count"]
          /\ result' = result
     ELSE /\ Sales' = Sales
          /\ pc' = [pc EXCEPT ![t] = "rollback"]
          /\ result' = [result EXCEPT ![t] = [kind |-> "storage", details |-> <<>>]]
  /\ UNCHANGED <<Products, RawMaterials, ProductIngredients,
                 rawItems, parsedItems, productById, ingredientRows, requiredAmounts, loopIdx, txSales,
                 txSellCount, txQuantity, locks, before, after,
                 store0, txCalls, serverVars, adminVars, catalogVars>>

\* tx.run(INSERT INTO Sales ...)
\* tx.run(INSERT INTO Sales ...); a row the table does not accept makes the
\* statement fail and the error leaves executeCheckout
InsertSale(t) ==
  /\ pc[t] = "insert_sale"
  /\ IF SalesAccepts(SaleRow(t, loopIdx[t], Items(t)[loopIdx[t]], productById[t]))
     THEN /\ txSales' = [txSales EXCEPT ![t] =
                           @ \cup {SaleRow(t, loopIdx[t], Items(t)[loopIdx[t]], productById[t])}]
          /\ pc' = [pc EXCEPT ![t] = "update_sell_count"]
          /\ result' = result
     ELSE /\ txSales' = txSales
          /\ pc' = [pc EXCEPT ![t] = "rollback"]
          /\ result' = [result EXCEPT ![t] = [kind |-> "storage", details |-> <<>>]]
  /\ UNCHANGED <<dbVars, rawItems, parsedItems, productById, ingredientRows, requiredAmounts, loopIdx,
                 txSellCount, txQuantity, locks, before, after,
                 store0, txCalls, serverVars, adminVars, catalogVars>>

\* tx.run(UPDATE Products SET sell_count = sell_count + ? WHERE id = ?)
UpdateSellCount(t) ==
  /\ pc[t] = "update_sell_count"
  /\ LET item == Items(t)[loopIdx[t]]
     IN /\ ~LockedByOther(t, ProductRow(item.product_id))
        /\ IF item.product_id \in DOMAIN Products
           THEN /\ locks' = [locks EXCEPT ![t] = @ \cup {ProductRow(item.product_id)}]
                /\ txSellCount' = [txSellCount EXCEPT ![t] =
                                     MapAdd(@, item.product_id, item.quantity)]
           ELSE UNCHANGED <<locks, txSellCount>>
  /\ IF loopIdx[t] < Len(Items(t))
     THEN /\ loopIdx' = [loopIdx EXCEPT ![t] = @ + 1]
          /\ pc' = [pc EXCEPT ![t] = "insert_sale"]
     ELSE /\ loopIdx' = [loopIdx EXCEPT ![t] = 1]
          /\ pc' = [pc EXCEPT ![t] = IF Len(Required(t)) > 0 THEN "decrement" ELSE "commit"]
  /\ UNCHANGED <<dbVars, rawItems, parsedItems, productById, ingredientRows, requiredAmounts,
                 txSales, txQuantity, result, before, after,
                 store0, txCalls, serverVars, adminVars, catalogVars>>

\* tx.run(UPDATE RawMaterials SET quantity_available = quantity_available - ?
\*        WHERE id = ? AND quantity_available >= ?) and the result.changes test
Decrement(t) ==
  /\ pc[t] = "decrement"
  /\ \E requiredByMaterial \in {Required(t)} :
     \E materialId \in {requiredByMaterial[loopIdx[t]][1]} :
     \E required \in {requiredByMaterial[loopIdx[t]][2]} :
        /\ ~LockedByOther(t, MaterialRow(materialId))
        /\ IF ConditionalDecrementMatches(RawMaterials, materialId, required)
           THEN /\ locks' = [locks EXCEPT ![t] = @ \cup {MaterialRow(materialId)}]
                /\ txQuantity' = [txQuantity EXCEPT ![t] = MapAdd(@, materialId, required)]
                /\ result' = result
                /\ IF loopIdx[t] < Len(requiredByMaterial)
                   THEN /\ loopIdx' = [loopIdx EXCEPT ![t] = @ + 1]
                        /\ pc' = pc
                   ELSE /\ loopIdx' = loopIdx
                        /\ pc' = [pc EXCEPT ![t] = "commit"]
           ELSE /\ pc' = [pc EXCEPT ![t] = "rollback"]
                /\ result' = [result EXCEPT ![t] = [kind |-> "conflict", details |-> <<>>]]
                /\ UNCHANGED <<locks, txQuantity, loopIdx>>
  /\ UNCHANGED <<dbVars, rawItems, parsedItems, productById, ingredientRows, requiredAmounts,
                 txSales, txSellCount, before, after,
                 store0, txCalls, serverVars, adminVars, catalogVars>>

\* a store without deadlock detection: the two statements wait for ever
Deadlock_Never(t) ==
  /\ FALSE
  /\ UNCHANGED vars

\* the deadlock detector ends a wait cycle: the waiting UPDATE of t fails
Deadlock(t) ==
  /\ Waiting(t)
  /\ \E u \in Txs \ {t} : NeededRow(t) \in locks[u] /\ Waiting(u) /\ NeededRow(u) \in locks[t]
  /\ pc' = [pc EXCEPT ![t] = "rollback"]
  /\ result' = [result EXCEPT ![t] = [kind |-> "deadlock", details |-> <<>>]]
  /\ UNCHANGED <<dbVars, rawItems, parsedItems, productById, ingredientRows, requiredAmounts, loopIdx,
                 txSales, txSellCount, txQuantity, locks, before, after,
                 store0, txCalls, serverVars, adminVars, catalogVars>>

(***************************************************************************)
(* withTransaction: COMMIT and ROLLBACK                                    *)
(***************************************************************************)
MapGet(map, key) ==
  IF \E i \in 1..Len(map) : map[i][1] = key
  THEN map[CHOOSE i \in 1..Len(map) : map[i][1] = key][2]
  ELSE 0

\* sell_count written as the value the request saw when it began plus its
\* quantity, a read-modify-write in the application
CommittedProducts_StaleRead(t) ==
  [p \in DOMAIN Products |->
     IF MapGet(txSellCount[t], p) # 0
     THEN [Products[p] EXCEPT
             !.sell_count = before[t].Products[p].sell_count + MapGet(txSellCount[t], p)]
     ELSE Products[p]]

\* the committed tables after the writes of t are applied
CommittedSales(t) == Sales \cup txSales[t]
CommittedProducts(t) ==
  [p \in DOMAIN Products |->
     [Products[p] EXCEPT !.sell_count = @ + MapGet(txSellCount[t], p)]]
CommittedRawMaterials(t) ==
  [m \in DOMAIN RawMaterials |->
     [RawMaterials[m] EXCEPT !.quantity_available = @ - MapGet(txQuantity[t], m)]]

\* a ROLLBACK that leaves the inserted Sales rows behind
RolledBackSales_Kept(t) == Sales \cup txSales[t]

\* a ROLLBACK that leaves the sell_count increments behind
RolledBackProducts_Kept(t) ==
  [p \in DOMAIN Products |->
     [Products[p] EXCEPT !.sell_count = @ + MapGet(txSellCount[t], p)]]

\* the committed tables after the writes of t are dropped
RolledBackSales(t) == Sales
RolledBackProducts(t) == Products
RolledBackRawMaterials(t) == RawMaterials

\* const value = await fn(tx); await client.query('COMMIT'); client.release()
Commit(t) ==
  /\ pc[t] = "commit"
  /\ Sales' = CommittedSales(t)
  /\ Products' = CommittedProducts(t)
  /\ RawMaterials' = CommittedRawMaterials(t)
  /\ txSales' = [txSales EXCEPT ![t] = {}]
  /\ txSellCount' = [txSellCount EXCEPT ![t] = <<>>]
  /\ txQuantity' = [txQuantity EXCEPT ![t] = <<>>]
  /\ locks' = [locks EXCEPT ![t] = {}]
  /\ result' = [result EXCEPT ![t] = [kind |-> "ok", details |-> <<>>]]
  /\ pc' = [pc EXCEPT ![t] = "done"]
  /\ UNCHANGED <<ProductIngredients, rawItems, parsedItems, productById, ingredientRows, requiredAmounts, loopIdx,
                 before, store0, txCalls, serverVars, adminVars, catalogVars>>
  /\ after' = [after EXCEPT ![t] = Store']

\* catch (err) { await client.query('ROLLBACK') ... throw err } finally { client.release() }
Rollback(t) ==
  /\ pc[t] = "rollback"
  /\ Sales' = RolledBackSales(t)
  /\ Products' = RolledBackProducts(t)
  /\ RawMaterials' = RolledBackRawMaterials(t)
  /\ txSales' = [txSales EXCEPT ![t] = {}]
  /\ txSellCount' = [txSellCount EXCEPT ![t] = <<>>]
  /\ txQuantity' = [txQuantity EXCEPT ![t] = <<>>]
  /\ locks' = [locks EXCEPT ![t] = {}]
  /\ pc' = [pc EXCEPT ![t] = "done"]
  /\ UNCHANGED <<ProductIngredients, rawItems, parsedItems, productById, ingredientRows, requiredAmounts, loopIdx,
                 result, before, store0, txCalls, serverVars, adminVars, catalogVars>>
  /\ after' = [after EXCEPT ![t] = Store']

(***************************************************************************)
(* Raw-material admin endpoints (autocommit statements on the pool)        *)
(***************************************************************************)
\* parseFloat of a request value
parseFloat(v) ==
  CASE v = "-1" -> -1
    [] v = "3" -> 3
    [] v = "4" -> 4
    [] v = "9" -> 9

\* POST /api/raw-materials
CreateRawMaterial(v) ==
  /\ adminPc = "idle"
  /\ adminCount < MaxAdminRequests
  /\ NewMaterialId \notin DOMAIN RawMaterials
  /\ adminCount' = adminCount + 1
  /\ IF v = Undefined
     THEN RawMaterials' = RawMaterials
     ELSE RawMaterials' =
            [m \in DOMAIN RawMaterials \cup {NewMaterialId} |->
               IF m = NewMaterialId
               THEN [name |-> NewMaterialId, unit |-> "kg", cost_per_unit |-> 1,
                     low_stock_threshold |-> Units(10),
                     quantity_available |-> Units(parseFloat(v))]
               ELSE RawMaterials[m]]
  /\ UNCHANGED <<Products, ProductIngredients, Sales, txVars, store0, txCalls, serverVars,
                 adminPc, adminReq, adminExisting, catalogVars>>

\* PUT /api/raw-materials/:id, the SELECT of the existing row
UpdateRawMaterialRead(id, v, c) ==
  /\ adminPc = "idle"
  /\ adminCount < MaxAdminRequests
  /\ adminCount' = adminCount + 1
  /\ IF id \in DOMAIN RawMaterials
     THEN /\ adminPc' = "update"
          /\ adminReq' = [id |-> id, quantity_available |-> v, cost_per_unit |-> c]
          /\ adminExisting' = RawMaterials[id]
     ELSE UNCHANGED <<adminPc, adminReq, adminExisting>>
  /\ UNCHANGED <<dbVars, txVars, store0, txCalls, serverVars, catalogVars>>

\* PUT /api/raw-materials/:id, the UPDATE (it waits for the row lock)
UpdateRawMaterialWrite ==
  /\ adminPc = "update"
  /\ ~Locked(MaterialRow(adminReq.id))
  /\ RawMaterials' =
       [m \in DOMAIN RawMaterials |->
          IF m = adminReq.id
          THEN [name |-> adminExisting.name,
                unit |-> adminExisting.unit,
                cost_per_unit |->
                  IF adminReq.cost_per_unit # Undefined
                  THEN parseFloat(adminReq.cost_per_unit)
                  ELSE adminExisting.cost_per_unit,
                low_stock_threshold |-> adminExisting.low_stock_threshold,
                quantity_available |->
                  IF adminReq.quantity_available # Undefined
                  THEN Units(parseFloat(adminReq.quantity_available))
                  ELSE adminExisting.quantity_available]
          ELSE RawMaterials[m]]
  /\ adminPc' = "idle"
  /\ UNCHANGED <<Products, ProductIngredients, Sales, txVars, store0, txCalls, serverVars,
                 adminReq, adminExisting, adminCount, catalogVars>>

(***************************************************************************)
(* Product admin endpoints: the body is parsed on the pool, the writes run *)
(* in one transaction, seen by the others when it commits                  *)
(***************************************************************************)
MaxProductRequests == 1         \* product admin requests in one behaviour
NewProductId == "C"             \* id (uuid) given to a created product
UnknownMaterialId == "X"        \* a raw material id with no RawMaterials row
PriceTokens == {"4"}            \* selling_price values a product request may carry
CostTokens == {"9"}             \* manufacturing_cost values a product request may carry
MaterialCostTokens == {"3"}     \* cost_per_unit values a raw-material request may carry

IngredientLists ==
  { <<>>,
    <<[raw_material_id |-> "M", quantity_used |-> 2]>>,
    <<[raw_material_id |-> "N", quantity_used |-> 1],
      [raw_material_id |-> "M", quantity_used |-> 2]>>,
    <<[raw_material_id |-> "M", quantity_used |-> 1],
      [raw_material_id |-> "M", quantity_used |-> 2]>>,
    <<[raw_material_id |-> UnknownMaterialId, quantity_used |-> 1]>>,
    <<[raw_material_id |-> "N", quantity_used |-> 1],
      [raw_material_id |-> "", quantity_used |-> 1]>>,
    <<[raw_material_id |-> "N", quantity_used |-> 1],
      [raw_material_id |-> "M", quantity_used |-> 0]>> }

\* a field that is undefined in req.body is a field the record does not have
CreateBodies ==
  [ingredients : IngredientLists, selling_price : PriceTokens]
    \cup [selling_price : PriceTokens]
    \cup [ingredients : {<<>>}]
UpdateBodies ==
  [ingredients : IngredientLists]
    \cup [ingredients : {l \in IngredientLists : Len(l) = 1}, manufacturing_cost : CostTokens]
    \cup [manufacturing_cost : CostTokens]
    \cup [selling_price : PriceTokens]

\* if (!rawValue) return []; an array is passed on as it is
parseIngredientsPayload(body) ==
  IF "ingredients" \in DOMAIN body THEN body.ingredients ELSE <<>>

\* the for-loop of setProductIngredients; the INSERT is refused by
\* UNIQUE(product_id, raw_material_id) when the pair has a row
RECURSIVE InsertIngredients(_, _, _, _, _, _)
InsertIngredients(ingredients, seen, manufacturingCost, rows, materials, productId) ==
  IF ingredients = <<>>
  THEN [ok |-> TRUE, manufacturingCost |-> manufacturingCost, rows |-> rows, error |-> ""]
  ELSE LET item == Head(ingredients)
           rawMaterialId == item.raw_material_id
           thrown(message) ==
             [ok |-> FALSE, manufacturingCost |-> 0, rows |-> rows, error |-> message]
       IN IF rawMaterialId = ""
          THEN thrown("Each ingredient must include raw_material_id.")
          ELSE IF item.quantity_used <= 0
          THEN thrown("Each ingredient quantity_used must be greater than 0.")
          ELSE IF rawMaterialId \in seen
          THEN thrown("Duplicate raw material in ingredients.")
          ELSE IF rawMaterialId \notin DOMAIN materials
          THEN thrown("One or more ingredients reference invalid raw materials.")
          ELSE IF \E k \in 1..Len(rows) :
                    rows[k].product_id = productId /\ rows[k].raw_material_id = rawMaterialId
               THEN thrown("duplicate key value violates unique constraint")
          ELSE InsertIngredients(Tail(ingredients), seen \cup {rawMaterialId},
                 manufacturingCost + item.quantity_used * materials[rawMaterialId].cost_per_unit,
                 Append(rows, [product_id |-> productId,
                               raw_material_id |-> rawMaterialId,
                               quantity_used |-> item.quantity_used]),
                 materials, productId)

\* the rows of the product are not deleted first
setProductIngredients_NoDelete(rows, materials, productId, ingredients) ==
  IF Len(ingredients) = 0
  THEN [ok |-> TRUE, manufacturingCost |-> 0, rows |-> rows, error |-> ""]
  ELSE InsertIngredients(ingredients, {}, 0, rows, materials, productId)

\* DELETE FROM ProductIngredients WHERE product_id = ?, then the loop
setProductIngredients(rows, materials, productId, ingredients) ==
  LET ofOther(r) == r.product_id # productId
  IN IF Len(ingredients) = 0
     THEN [ok |-> TRUE, manufacturingCost |-> 0, rows |-> SelectSeq(rows, ofOther),
           error |-> ""]
     ELSE InsertIngredients(ingredients, {}, 0, SelectSeq(rows, ofOther), materials, productId)

\* clientErrors.includes(message) ? 400 : 500
getClientErrorStatus(message) ==
  IF message \in {"Invalid ingredients payload.",
                  "Ingredients must be an array.",
                  "Each ingredient must include raw_material_id.",
                  "Each ingredient quantity_used must be greater than 0.",
                  "Duplicate raw material in ingredients.",
                  "One or more ingredients reference invalid raw materials."}
  THEN 400 ELSE 500

\* the statements of the callback are kept although the callback threw
TransactionEffect_NoRollback(ok, committed, written) == written

\* withTransaction: what the callback wrote is committed when it returns and
\* rolled back when it throws
TransactionEffect(ok, committed, written) == IF ok THEN written ELSE committed

\* POST /api/products up to withTransaction
CreateProductRequest(body) ==
  /\ prodPc = "idle"
  /\ prodCount < MaxProductRequests
  /\ NewProductId \notin DOMAIN Products
  /\ prodCount' = prodCount + 1
  /\ IF "selling_price" \in DOMAIN body
     THEN /\ prodPc' = "create"
          /\ prodReq' = [id |-> NewProductId, body |-> body]
          /\ UNCHANGED prodResponse
     ELSE /\ prodResponse' = [status |-> 400, error |-> "Name and selling price are required."]
          /\ UNCHANGED <<prodPc, prodReq>>
  /\ UNCHANGED <<dbVars, txVars,
                 store0, txCalls, serverVars, adminVars, prodExisting, ingredientCost>>

\* POST /api/products, the transaction: INSERT INTO Products with cost 0,
\* setProductIngredients, UPDATE Products SET manufacturing_cost
CreateProductTx ==
  /\ prodPc = "create"
  /\ LET inserted ==
           [p \in DOMAIN Products \cup {prodReq.id} |->
              IF p = prodReq.id
              THEN [selling_price |-> parseFloat(prodReq.body.selling_price),
                    manufacturing_cost |-> 0,
                    sell_count |-> 0]
              ELSE Products[p]]
         set == setProductIngredients(ProductIngredients, RawMaterials, prodReq.id,
                                      parseIngredientsPayload(prodReq.body))
         updated ==
           IF set.ok
           THEN [inserted EXCEPT ![prodReq.id].manufacturing_cost = set.manufacturingCost]
           ELSE inserted
     IN /\ Products' = TransactionEffect(set.ok, Products, updated)
        /\ ProductIngredients' = TransactionEffect(set.ok, ProductIngredients, set.rows)
        /\ ingredientCost' =
             IF set.ok
             THEN [p \in DOMAIN Products \cup {prodReq.id} |->
                     IF p = prodReq.id
                     THEN IngredientsCost(set.rows, RawMaterials, p)
                     ELSE ingredientCost[p]]
             ELSE ingredientCost
        /\ prodResponse' =
             IF set.ok THEN [status |-> 201, error |-> ""]
             ELSE [status |-> getClientErrorStatus(set.error), error |-> set.error]
  /\ prodPc' = "idle"
  /\ prodReq' = <<>>
  /\ UNCHANGED <<RawMaterials, Sales, txVars,
                 store0, txCalls, serverVars, adminVars, prodExisting, prodCount>>

\* PUT /api/products/:id, the SELECT of the existing row
UpdateProductRead(id, body) ==
  /\ prodPc = "idle"
  /\ prodCount < MaxProductRequests
  /\ prodCount' = prodCount + 1
  /\ IF id \in DOMAIN Products
     THEN /\ prodPc' = "update"
          /\ prodReq' = [id |-> id, body |-> body]
          /\ prodExisting' = Products[id]
          /\ UNCHANGED prodResponse
     ELSE /\ prodResponse' = [status |-> 404, error |-> "Product not found."]
          /\ UNCHANGED <<prodPc, prodReq, prodExisting>>
  /\ UNCHANGED <<dbVars, txVars, store0, txCalls, serverVars, adminVars, ingredientCost>>

\* nextManufacturingCost when the body has no ingredients
SuppliedManufacturingCost(body, existing) ==
  IF "manufacturing_cost" \in DOMAIN body
  THEN parseFloat(body.manufacturing_cost)
  ELSE existing.manufacturing_cost

\* the UPDATE writes back every column of the row read first, sell_count too
UpdatedProduct_WholeRow(row, body, existing, nextManufacturingCost) ==
  [selling_price |->
     IF "selling_price" \in DOMAIN body
     THEN parseFloat(body.selling_price)
     ELSE existing.selling_price,
   manufacturing_cost |-> nextManufacturingCost,
   sell_count |-> existing.sell_count]

\* UPDATE Products SET name = ?, photo_url = ?, manufacturing_cost = ?,
\* selling_price = ? WHERE id = ?: the columns not set keep the value of the row
UpdatedProduct(row, body, existing, nextManufacturingCost) ==
  [selling_price |->
     IF "selling_price" \in DOMAIN body
     THEN parseFloat(body.selling_price)
     ELSE existing.selling_price,
   manufacturing_cost |-> nextManufacturingCost,
   sell_count |-> row.sell_count]

\* PUT /api/products/:id, the transaction: setProductIngredients when the body
\* has ingredients, then UPDATE Products (it waits for the row lock)
UpdateProductTx ==
  /\ prodPc = "update"
  /\ ~Locked(ProductRow(prodReq.id))
  /\ LET body == prodReq.body
         set == setProductIngredients(ProductIngredients, RawMaterials, prodReq.id,
                                      body.ingredients)
         written == "ingredients" \in DOMAIN body
         thrown == written /\ ~set.ok
         nextManufacturingCost ==
           IF written THEN set.manufacturingCost
           ELSE SuppliedManufacturingCost(body, prodExisting)
         updated ==
           IF thrown THEN Products
           ELSE [Products EXCEPT ![prodReq.id] =
                   UpdatedProduct(@, body, prodExisting, nextManufacturingCost)]
     IN /\ Products' = TransactionEffect(~thrown, Products, updated)
        /\ ProductIngredients' =
             TransactionEffect(~thrown, ProductIngredients,
                               IF written THEN set.rows ELSE ProductIngredients)
        /\ ingredientCost' =
             IF written /\ ~thrown
             THEN [ingredientCost EXCEPT ![prodReq.id] =
                     IngredientsCost(set.rows, RawMaterials, prodReq.id)]
             ELSE ingredientCost
        /\ prodResponse' =
             IF thrown
             THEN [status |-> getClientErrorStatus(set.error), error |-> set.error]
             ELSE [status |-> 200, error |-> ""]
  /\ prodPc' = "idle"
  /\ prodReq' = <<>>
  /\ UNCHANGED <<RawMaterials, Sales, txVars,
                 store0, txCalls, serverVars, adminVars, prodExisting, prodCount>>

\* DELETE /api/sales/:id: DELETE FROM Sales WHERE id = ?
DeleteSale(id) ==
  /\ \E s \in Sales : s.id = id
  /\ Sales' = {s \in Sales : s.id # id}
  /\ UNCHANGED <<Products, RawMaterials, ProductIngredients, txVars, store0, txCalls, serverVars,
                 adminVars, catalogVars>>

\* the totals are computed from the current price and cost of the product
SalesReport_Recomputed ==
  {[id |-> s.id, product_id |-> s.product_id, quantity |-> s.quantity,
    total_price |-> s.quantity * Products[s.product_id].selling_price,
    total_profit |->
      s.quantity * (Products[s.product_id].selling_price
                      - Products[s.product_id].manufacturing_cost)] : s \in Sales}

\* GET /api/sales: the totals are read from the Sales rows
SalesReport ==
  {[id |-> s.id, product_id |-> s.product_id, quantity |-> s.quantity,
    total_price |-> s.total_price, total_profit |-> s.total_profit] : s \in Sales}

(***************************************************************************)
(* executeCheckout run from start to end with nothing in between           *)
(***************************************************************************)
RECURSIVE ApplyDecrements(_, _)
\* the RawMaterials table after the decrement loop, or "conflict"
ApplyDecrements(required, materials) ==
  IF required = <<>> THEN [ok |-> TRUE, materials |-> materials]
  ELSE LET materialId == Head(required)[1]
           req == Head(required)[2]
       IN IF ConditionalDecrementMatches(materials, materialId, req)
          THEN ApplyDecrements(Tail(required),
                 [materials EXCEPT ![materialId].quantity_available = @ - req])
          ELSE [ok |-> FALSE, materials |-> materials]

RunCheckout(t, store, raw) ==
  LET parsed == parseCheckoutItems(raw)
      items == parsed.items
      byId == ResolveProducts(store.Products, items)
      rows == IngredientQuery(store.ProductIngredients, store.RawMaterials, items)
      required == RequiredByMaterial(items, rows, <<>>)
      insufficiencies == Insufficiencies(required, MaterialMeta(rows, <<>>))
      decremented == ApplyDecrements(required, store.RawMaterials)
      fail(kind, details) == [result |-> [kind |-> kind, details |-> details], store |-> store]
  IN IF ~parsed.ok THEN fail("validation", <<>>)
     ELSE IF ~AllProductsExist(byId, items) THEN fail("not_found", <<>>)
     ELSE IF Len(insufficiencies) > 0 THEN fail("insufficient", insufficiencies)
     ELSE IF \E i \in 1..Len(items) : ~SalesAccepts(SaleRow(t, i, items[i], byId))
          THEN fail("storage", <<>>)
     ELSE IF ~decremented.ok THEN fail("conflict", <<>>)
     ELSE [result |-> [kind |-> "ok", details |-> <<>>],
           store |->
             [Products |->
                [p \in DOMAIN store.Products |->
                   [store.Products[p] EXCEPT !.sell_count =
                      @ + SumSeq([i \in 1..Len(items) |->
                                    IF items[i].product_id = p THEN items[i].quantity ELSE 0])]],
              RawMaterials |-> decremented.materials,
              ProductIngredients |-> store.ProductIngredients,
              Sales |-> store.Sales \cup
                          {SaleRow(t, i, items[i], byId) : i \in 1..Len(items)}]]

(***************************************************************************)
(* The value executeCheckout returns                                       *)
(***************************************************************************)
\* transaction_count: rawItems.length, the lines of the cart as it was sent
ReturnValue_CountsCartLines(t) ==
  LET items == Items(t)
      salesCreated == [i \in 1..Len(items) |-> SaleRow(t, i, items[i], productById[t])]
  IN [sales |-> salesCreated,
      total_bill |-> SumSeq([i \in 1..Len(items) |-> salesCreated[i].total_price]),
      total_profit |-> SumSeq([i \in 1..Len(items) |-> salesCreated[i].total_profit]),
      total_items |-> SumSeq([i \in 1..Len(items) |-> items[i].quantity]),
      transaction_count |-> Len(rawItems[t])]

\* salesCreated and the totals accumulated by the insert loop
ReturnValue(t) ==
  LET items == Items(t)
      salesCreated == [i \in 1..Len(items) |-> SaleRow(t, i, items[i], productById[t])]
  IN [sales |-> salesCreated,
      total_bill |-> SumSeq([i \in 1..Len(items) |-> salesCreated[i].total_price]),
      total_profit |-> SumSeq([i \in 1..Len(items) |-> salesCreated[i].total_profit]),
      total_items |-> SumSeq([i \in 1..Len(items) |-> items[i].quantity]),
      transaction_count |-> Len(salesCreated)]

(***************************************************************************)
(* The errors thrown by executeCheckout and the response of the route      *)
(***************************************************************************)
\* new Error(message): status and details are not set; the absent status is
\* the falsy 0 of err.status || 500
EmptyCartError ==
  [message |-> "At least one cart item is required.", status |-> 0, details |-> <<>>]
InvalidItemError ==
  [message |-> "Each cart item must include product_id and quantity > 0.",
   status |-> 0, details |-> <<>>]
ProductMissingError ==
  [message |-> "One or more products no longer exist.", status |-> 0, details |-> <<>>]

\* the conflict thrown with the message of the insufficient-stock error
StockChangedError_AsInsufficient ==
  [message |-> "Insufficient raw materials for this sale.", status |-> 0, details |-> <<>>]

StockChangedError ==
  [message |-> "Stock changed during checkout. Please try again.",
   status |-> 0, details |-> <<>>]

\* err.status = 400; err.details = insufficiencies
InsufficientError(insufficiencies) ==
  [message |-> "Insufficient raw materials for this sale.",
   status |-> 400, details |-> insufficiencies]

\* an error raised by the store for a statement it refuses; the text is the store's
StoreError(kind) ==
  [message |-> IF kind = "deadlock" THEN "deadlock detected"
               ELSE "invalid input syntax for type integer",
   status |-> 0, details |-> <<>>]

\* the error that left executeCheckout for request t
ThrownError(t) ==
  CASE result[t].kind = "validation" ->
         IF Len(rawItems[t]) = 0 THEN EmptyCartError ELSE InvalidItemError
    [] result[t].kind = "not_found" -> ProductMissingError
    [] result[t].kind = "insufficient" -> InsufficientError(result[t].details)
    [] result[t].kind = "conflict" -> StockChangedError
    [] result[t].kind \in {"deadlock", "storage"} -> StoreError(result[t].kind)

\* res.status(err.status || 500).json({ error: err.message, details: err.details || undefined })
Response(t) ==
  [status |-> IF ThrownError(t).status # 0 THEN ThrownError(t).status ELSE 500,
   error |-> ThrownError(t).message,
   details |-> ThrownError(t).details]

(***************************************************************************)
(* Specification: checkout requests running concurrently                   *)
(***************************************************************************)
Next ==
  \/ \E t \in Txs, raw \in Carts : Start(t, raw)
  \/ \E t \in Txs : SelectProducts(t)
  \/ \E t \in Txs : SelectIngredients(t)
  \/ \E t \in Txs : InsertSale(t)
  \/ \E t \in Txs : UpdateSellCount(t)
  \/ \E t \in Txs : Decrement(t)
  \/ \E t \in Txs : Deadlock(t)
  \/ \E t \in Txs : Commit(t)
  \/ \E t \in Txs : Rollback(t)

Spec == Init /\ [][Next]_vars

(***************************************************************************)
(* Specification: checkout requests one after the other                    *)
(***************************************************************************)
Quiet(t) == \A u \in Txs \ {t} : pc[u] \in {"idle", "done"}

StartAlone(t, raw) == Quiet(t) /\ Start(t, raw)

NextSeq ==
  \/ \E t \in Txs, raw \in Carts : StartAlone(t, raw)
  \/ \E t \in Txs : SelectProducts(t)
  \/ \E t \in Txs : SelectIngredients(t)
  \/ \E t \in Txs : InsertSale(t)
  \/ \E t \in Txs : UpdateSellCount(t)
  \/ \E t \in Txs : Decrement(t)
  \/ \E t \in Txs : Commit(t)
  \/ \E t \in Txs : Rollback(t)

SpecSeq == Init /\ [][NextSeq]_vars

(***************************************************************************)
(* Specification: concurrent checkouts and raw-material admin requests     *)
(***************************************************************************)
OneLineCarts == {c \in Carts : Len(c) = 1}

NextAdmin ==
  \/ \E t \in Txs, raw \in OneLineCarts : Start(t, raw)
  \/ \E t \in Txs : SelectProducts(t)
  \/ \E t \in Txs : SelectIngredients(t)
  \/ \E t \in Txs : InsertSale(t)
  \/ \E t \in Txs : UpdateSellCount(t)
  \/ \E t \in Txs : Decrement(t)
  \/ \E t \in Txs : Commit(t)
  \/ \E t \in Txs : Rollback(t)
  \/ \E v \in AdminQuantities \cup {Undefined} : CreateRawMaterial(v)
  \/ \E id \in MaterialIds \cup {NewMaterialId}, v \in AdminQuantities \cup {Undefined} :
       UpdateRawMaterialRead(id, v, Undefined)
  \/ UpdateRawMaterialWrite

SpecAdmin == Init /\ [][NextAdmin]_vars

\* the step-by-step run of a request that ran alone is the run from start to end
SeqAgreesWithRun ==
  \A t \in Txs :
    pc[t] = "done" =>
      /\ result[t] = RunCheckout(t, before[t], rawItems[t]).result
      /\ after[t] = RunCheckout(t, before[t], rawItems[t]).store

(***************************************************************************)
(* What a cart asks for, stated from the cart and the tables alone         *)
(***************************************************************************)
\* the quantity of product p over all lines of the cart
LineQuantity(raw, p) ==
  SumSeq([i \in 1..Len(raw) |-> IF raw[i].product_id = p THEN raw[i].quantity ELSE 0])

\* sum over the cart lines of line quantity times quantity_used of material m
AggregatedRequirement(raw, ingredients, m) ==
  SumSeq([k \in 1..Len(ingredients) |->
            IF ingredients[k].raw_material_id = m
            THEN ingredients[k].quantity_used * LineQuantity(raw, ingredients[k].product_id)
            ELSE 0])

DistinctProducts(raw) == {raw[i].product_id : i \in 1..Len(raw)}

ValidCart(raw, store) ==
  /\ Len(raw) > 0
  /\ \A i \in 1..Len(raw) :
       /\ raw[i].product_id \in DOMAIN store.Products
       /\ raw[i].quantity > 0 /\ IsInteger(raw[i].quantity)

\* the cart with one line per product carrying the summed quantity
RECURSIVE CoalesceFrom(_, _, _)
CoalesceFrom(rest, raw, seen) ==
  IF rest = <<>> THEN <<>>
  ELSE IF Head(rest).product_id \in seen THEN CoalesceFrom(Tail(rest), raw, seen)
  ELSE <<[product_id |-> Head(rest).product_id,
          quantity |-> LineQuantity(raw, Head(rest).product_id)]>>
       \o CoalesceFrom(Tail(rest), raw, seen \cup {Head(rest).product_id})

Coalesce(raw) == CoalesceFrom(raw, raw, {})

Quantity(store, m) == store.RawMaterials[m].quantity_available

Sufficient(raw, store) ==
  \A m \in DOMAIN store.RawMaterials :
    AggregatedRequirement(raw, store.ProductIngredients, m) <= Quantity(store, m)

Ended(t, kind) == pc[t] = "done" /\ result[t].kind = kind

\* the checkouts whose Sales rows are in the given Sales table
SalesOf(sales, t) == {s \in sales : s.id[1] = t}

(***************************************************************************)
(* C1: under any interleaving of concurrent checkouts, what the committed  *)
(* checkouts consumed of a raw material never exceeds the stock that was   *)
(* available, and quantity_available of every raw material is >= 0 in      *)
(* every committed state.                                                  *)
(***************************************************************************)
CommittedTxs == {t \in Txs : result[t].kind = "ok"}

Consumed(m) ==
  SumOver([t \in Txs |-> AggregatedRequirement(rawItems[t], store0.ProductIngredients, m)],
          CommittedTxs)

C1_NoOversell ==
  \A m \in DOMAIN RawMaterials :
    /\ Consumed(m) <= Quantity(store0, m)
    /\ RawMaterials[m].quantity_available >= 0

\* a race happened: one checkout committed and the other lost its conditional decrement
C1_Witness ==
  \E t, u \in Txs :
    /\ Ended(t, "ok") /\ Ended(u, "conflict")
    /\ \E m \in DOMAIN RawMaterials :
         Consumed(m) > 0 /\ RawMaterials[m].quantity_available = Quantity(store0, m) - Consumed(m)

(***************************************************************************)
(* C2: two checkouts that both passed the sufficiency check on the same    *)
(* stock, each sufficient alone but together needing more of a shared raw  *)
(* material than is available: exactly one commits, the other fails with   *)
(* 'Stock changed during checkout', and the final stock is not negative.   *)
(***************************************************************************)
ReadInitialStock(t) ==
  /\ Len(ingredientRows[t]) > 0
  /\ \A k \in 1..Len(ingredientRows[t]) :
       ingredientRows[t][k].quantity_available =
         Quantity(store0, ingredientRows[t][k].raw_material_id)

JointlyExceeding(t, u) ==
  /\ Sufficient(rawItems[t], store0)
  /\ Sufficient(rawItems[u], store0)
  /\ \E m \in DOMAIN store0.RawMaterials :
       /\ AggregatedRequirement(rawItems[t], store0.ProductIngredients, m) > 0
       /\ AggregatedRequirement(rawItems[u], store0.ProductIngredients, m) > 0
       /\ AggregatedRequirement(rawItems[t], store0.ProductIngredients, m)
            + AggregatedRequirement(rawItems[u], store0.ProductIngredients, m)
          > Quantity(store0, m)

C2_ExactlyOneCommitsOtherConflicts ==
  \A t, u \in Txs :
    ( /\ t # u
      /\ pc[t] = "done" /\ pc[u] = "done"
      /\ ReadInitialStock(t) /\ ReadInitialStock(u)
      /\ JointlyExceeding(t, u) )
    => /\ \/ result[t].kind = "ok" /\ result[u].kind = "conflict"
          \/ result[u].kind = "ok" /\ result[t].kind = "conflict"
       /\ \A m \in DOMAIN RawMaterials : RawMaterials[m].quantity_available >= 0

(***************************************************************************)
(* C3: a checkout of a cart in which the aggregated requirement of some    *)
(* raw material exceeds its available quantity fails with the              *)
(* insufficient-stock error and leaves every raw material quantity, every  *)
(* sell_count and the Sales table as they were before the call.            *)
(***************************************************************************)
C3_InsufficientLeavesStoreUnchanged ==
  \A t \in Txs :
    ( /\ pc[t] = "done"
      /\ ValidCart(rawItems[t], before[t])
      /\ ~Sufficient(rawItems[t], before[t]) )
    => /\ result[t].kind = "insufficient"
       /\ after[t] = before[t]

C3_Witness ==
  \E t \in Txs :
    /\ Ended(t, "insufficient")
    /\ ~Sufficient(rawItems[t], before[t])
    /\ before[t].Sales # {}
    /\ after[t] = before[t]

(***************************************************************************)
(* C4: a checkout, running alone, of a valid cart whose every required raw *)
(* material has available >= required succeeds; the Sales table grows by  *)
(* the number of distinct products of the cart, every raw material's       *)
(* quantity_available decreases by its aggregated requirement, and a raw   *)
(* material no carted product uses is unchanged.                           *)
(***************************************************************************)
C4_SufficientCheckoutSucceeds ==
  \A t \in Txs :
    ( /\ pc[t] = "done"
      /\ ValidCart(rawItems[t], before[t])
      /\ Sufficient(rawItems[t], before[t]) )
    => /\ result[t].kind = "ok"
       /\ before[t].Sales \subseteq after[t].Sales
       /\ Cardinality(after[t].Sales) =
            Cardinality(before[t].Sales) + Cardinality(DistinctProducts(rawItems[t]))
       /\ DOMAIN after[t].RawMaterials = DOMAIN before[t].RawMaterials
       /\ \A m \in DOMAIN before[t].RawMaterials :
            LET need == AggregatedRequirement(rawItems[t], before[t].ProductIngredients, m)
            IN /\ Quantity(after[t], m) = Quantity(before[t], m) - need
               /\ need = 0 => after[t].RawMaterials[m] = before[t].RawMaterials[m]

\* a cart of two lines for one product that uses up a raw material exactly and
\* does not touch another
C4_Witness ==
  \E t \in Txs :
    /\ Ended(t, "ok")
    /\ Cardinality(DistinctProducts(rawItems[t])) = 1
    /\ Len(rawItems[t]) = 2
    /\ \E m \in DOMAIN RawMaterials :
         /\ AggregatedRequirement(rawItems[t], before[t].ProductIngredients, m) > 0
         /\ Quantity(after[t], m) = 0
    /\ \E m \in DOMAIN RawMaterials :
         /\ AggregatedRequirement(rawItems[t], before[t].ProductIngredients, m) = 0
         /\ after[t].RawMaterials[m] = before[t].RawMaterials[m]

(***************************************************************************)
(* C5: quantity_available of every raw material is >= 0 in every committed *)
(* state reachable by checkouts, raw-material creation and raw-material    *)
(* update.                                                                 *)
(***************************************************************************)
C5_QuantityNeverNegative ==
  \A m \in DOMAIN RawMaterials : RawMaterials[m].quantity_available >= 0

(***************************************************************************)
(* C6: while a checkout is in progress, a step that changes the            *)
(* quantity_available of a raw material is the commit of a checkout's      *)
(* conditional decrements; no other operation writes quantity_available.   *)
(***************************************************************************)
CheckoutInProgress == \E t \in Txs : pc[t] \notin {"idle", "done"}

QuantityWritten ==
  \E m \in DOMAIN RawMaterials :
    \/ m \notin DOMAIN RawMaterials'
    \/ RawMaterials'[m].quantity_available # RawMaterials[m].quantity_available

C6_OnlyConditionalDecrementWritesQuantity ==
  [][ (CheckoutInProgress /\ QuantityWritten)
        => \E t \in Txs : pc[t] = "commit" /\ pc'[t] = "done" /\ txQuantity[t] # <<>> ]_vars

(***************************************************************************)
(* C7: a checkout whose conditional decrement affects zero rows ends with  *)
(* the 'stock changed during checkout' error and none of its writes is     *)
(* committed: no Sales row of it exists, and the committed store differs   *)
(* from the store before the call only by what the other checkouts         *)
(* committed in between.                                                   *)
(***************************************************************************)
CommittedBetween(t) ==
  {u \in Txs \ {t} : SalesOf(after[t].Sales \ before[t].Sales, u) # {}}

C7_ConflictRollsBackEverything ==
  \A t \in Txs :
    Ended(t, "conflict") =>
      /\ SalesOf(after[t].Sales, t) = {}
      /\ SalesOf(Sales, t) = {}
      /\ before[t].Sales \subseteq after[t].Sales
      /\ \A p \in DOMAIN before[t].Products :
           after[t].Products[p].sell_count =
             before[t].Products[p].sell_count
               + SumOver([u \in Txs |-> LineQuantity(rawItems[u], p)], CommittedBetween(t))
      /\ \A m \in DOMAIN before[t].RawMaterials :
           Quantity(after[t], m) =
             Quantity(before[t], m)
               - SumOver([u \in Txs |->
                            AggregatedRequirement(rawItems[u], before[t].ProductIngredients, m)],
                         CommittedBetween(t))

\* the conflict came after an earlier decrement of the same checkout had been applied
C7_Witness ==
  \E t \in Txs :
    /\ Ended(t, "conflict")
    /\ loopIdx[t] > 1
    /\ CommittedBetween(t) # {}

(***************************************************************************)
(* C8: in every committed state each checkout is present entirely or not   *)
(* at all: its Sales rows (one per distinct product) are there exactly     *)
(* when its sell_count increments and all its stock decrements are there.  *)
(***************************************************************************)
Present == {t \in Txs : SalesOf(Sales, t) # {}}

C8_AllOrNothing ==
  /\ \A t \in Present :
       /\ Cardinality(SalesOf(Sales, t)) = Cardinality(DistinctProducts(rawItems[t]))
       /\ \A s \in SalesOf(Sales, t) : s.quantity = LineQuantity(rawItems[t], s.product_id)
  /\ \A p \in DOMAIN Products :
       Products[p].sell_count =
         store0.Products[p].sell_count
           + SumOver([t \in Txs |-> LineQuantity(rawItems[t], p)], Present)
  /\ \A m \in DOMAIN RawMaterials :
       RawMaterials[m].quantity_available =
         Quantity(store0, m)
           - SumOver([t \in Txs |->
                        AggregatedRequirement(rawItems[t], store0.ProductIngredients, m)],
                     Present)

\* one checkout is committed while another holds uncommitted inserts and decrements
C8_Witness ==
  \E t, u \in Txs :
    /\ Ended(t, "ok")
    /\ pc[u] = "commit"
    /\ txSales[u] # {} /\ txQuantity[u] # <<>>
    /\ Present = {t}

(***************************************************************************)
(* C9: the required amount of a raw material is the sum over the merged    *)
(* cart lines of line quantity times quantity_used, across the products    *)
(* that share the material.  With A using 3 and B using 1 of M, the cart   *)
(* [A x2, B x1] requires 7: it fails with shortfall {required 7,           *)
(* available 6} when M = 6 and succeeds leaving M = 0 when M = 7.          *)
(***************************************************************************)
CartA2B1 ==
  <<[product_id |-> "A", quantity |-> Units(2)], [product_id |-> "B", quantity |-> Units(1)]>>

HasRequired(t) ==
  \/ pc[t] \in {"insert_sale", "update_sell_count", "decrement", "commit"}
  \/ pc[t] \in {"rollback", "done"} /\ result[t].kind \in {"ok", "insufficient", "conflict"}

C9_CrossProductAggregation ==
  \A t \in Txs :
    /\ HasRequired(t) =>
         \A m \in DOMAIN before[t].RawMaterials :
           MapGet(Required(t), m) =
             AggregatedRequirement(rawItems[t], before[t].ProductIngredients, m)
    /\ ( /\ pc[t] = "done"
         /\ rawItems[t] = CartA2B1
         /\ Quantity(before[t], "N") >= Units(1)
         /\ Quantity(before[t], "M") = Units(6) )
       => /\ result[t].kind = "insufficient"
          /\ result[t].details =
               <<[raw_material_id |-> "M", raw_material_name |-> "M",
                  required |-> Units(7), available |-> Units(6), unit |-> "kg"]>>
          /\ after[t] = before[t]
    /\ ( /\ pc[t] = "done"
         /\ rawItems[t] = CartA2B1
         /\ Quantity(before[t], "N") >= Units(1)
         /\ Quantity(before[t], "M") = Units(7) )
       => /\ result[t].kind = "ok"
          /\ Quantity(after[t], "M") = 0

C9_Witness ==
  \E t \in Txs :
    /\ Ended(t, "ok")
    /\ rawItems[t] = CartA2B1
    /\ Quantity(before[t], "M") = Units(7)
    /\ Quantity(after[t], "M") = 0

(***************************************************************************)
(* C10: a cart with several lines for one product gives what the cart with *)
(* one line of the summed quantity gives: the same outcome, the same       *)
(* shortfall list, the same stock decrements, the same sell_count          *)
(* increments and the same Sales rows, one per distinct product.           *)
(***************************************************************************)
C10_DuplicateLinesCoalesce ==
  \A t \in Txs :
    pc[t] = "done" =>
      /\ result[t] = RunCheckout(t, before[t], Coalesce(rawItems[t])).result
      /\ after[t] = RunCheckout(t, before[t], Coalesce(rawItems[t])).store
      /\ result[t].kind = "ok" =>
           Cardinality(SalesOf(after[t].Sales, t)) = Cardinality(DistinctProducts(rawItems[t]))

HasDuplicateLines(raw) ==
  \E i, j \in 1..Len(raw) : i # j /\ raw[i].product_id = raw[j].product_id

C10_Witness ==
  \E t, u \in Txs :
    /\ Ended(t, "ok") /\ HasDuplicateLines(rawItems[t])
    /\ Ended(u, "insufficient") /\ HasDuplicateLines(rawItems[u])

(***************************************************************************)
(* Specification: a checkout request with any body, sent twice             *)
(***************************************************************************)
UnknownProductId == "Z"         \* a product id with no Products row
InputProductIds == ProductIds \cup {UnknownProductId, ""}
InputQuantities == {Units(-1), Units(0), Units(1), Units(1) + 1}
InputLines == [product_id : InputProductIds, quantity : InputQuantities]
InputCarts == UNION {[1..n -> InputLines] : n \in 0..MaxLines}

\* POST /api/sales/checkout with body.items = raw
Request(raw) == Start(1, raw)

\* the caller sends the same request again: a retry after the answer, or a
\* second submission while the first is still running
Retry == pc[1] # "idle" /\ Start(2, rawItems[1])

NextInput ==
  \/ \E raw \in InputCarts : Request(raw)
  \/ Retry
  \/ \E t \in Txs : SelectProducts(t)
  \/ \E t \in Txs : SelectIngredients(t)
  \/ \E t \in Txs : InsertSale(t)
  \/ \E t \in Txs : UpdateSellCount(t)
  \/ \E t \in Txs : Decrement(t)
  \/ \E t \in Txs : Commit(t)
  \/ \E t \in Txs : Rollback(t)

SpecInput == Init /\ [][NextInput]_vars

(***************************************************************************)
(* C11: a cart that is empty, or that has any line with a missing          *)
(* product_id or a non-positive quantity, is rejected with a validation    *)
(* error before any transaction is opened, and the store is unchanged;     *)
(* this holds even when earlier lines of the same cart are valid.          *)
(***************************************************************************)
MalformedCart(raw) ==
  \/ Len(raw) = 0
  \/ \E i \in 1..Len(raw) : raw[i].product_id = "" \/ raw[i].quantity <= 0

\* the request has not run a statement: nothing was read, written or locked
NoTransaction(t) ==
  /\ productById[t] = <<>> /\ ingredientRows[t] = <<>>
  /\ txSales[t] = {} /\ txSellCount[t] = <<>> /\ txQuantity[t] = <<>>
  /\ locks[t] = {}

C11_MalformedCartRejected ==
  \A t \in Txs :
    (pc[t] # "idle" /\ MalformedCart(rawItems[t])) =>
      /\ Ended(t, "validation")
      /\ NoTransaction(t)
      /\ after[t] = before[t]
      /\ Store = before[t]

\* the second line is malformed, the first is a valid line for a product in stock
C11_Witness ==
  \E t \in Txs :
    /\ Ended(t, "validation")
    /\ Len(rawItems[t]) = 2
    /\ rawItems[t][1].product_id \in DOMAIN Products
    /\ rawItems[t][1].quantity = Units(1)
    /\ rawItems[t][2].quantity <= 0

(***************************************************************************)
(* C12: every cart line accepted by checkout carries an integer quantity   *)
(* > 0: a cart with a line whose quantity is positive but not an integer   *)
(* is rejected as invalid input, and its request never reaches the         *)
(* sufficiency check or the Sales insert.                                  *)
(***************************************************************************)
HasNonIntegerQuantity(raw) ==
  \E i \in 1..Len(raw) : raw[i].quantity > 0 /\ ~IsInteger(raw[i].quantity)

C12_NonIntegerQuantityRejected ==
  \A t \in Txs :
    (pc[t] # "idle" /\ HasNonIntegerQuantity(rawItems[t])) =>
      /\ Ended(t, "validation")
      /\ NoTransaction(t)

(***************************************************************************)
(* C13: if any product id of the cart does not resolve to an existing      *)
(* product, checkout aborts with the product-not-found error before any    *)
(* write is issued, and no Sales row, sell_count or raw material quantity  *)
(* changes, even when the other cart lines are valid and in stock.         *)
(***************************************************************************)
HasUnknownProduct(raw, store) ==
  \E i \in 1..Len(raw) : raw[i].product_id \notin DOMAIN store.Products

NoWrite(t) ==
  /\ txSales[t] = {} /\ txSellCount[t] = <<>> /\ txQuantity[t] = <<>>
  /\ locks[t] = {}

C13_UnknownProductAborts ==
  \A t \in Txs :
    ( /\ pc[t] # "idle"
      /\ ~MalformedCart(rawItems[t])
      /\ HasUnknownProduct(rawItems[t], before[t]) )
    => /\ pc[t] \in {"select_products", "rollback", "done"}
       /\ pc[t] \in {"rollback", "done"} => result[t].kind = "not_found"
       /\ NoWrite(t)
       /\ Store = before[t]
       /\ pc[t] = "done" => after[t] = before[t]

\* the unknown product comes after a valid line for a product that is in stock
C13_Witness ==
  \E t \in Txs :
    /\ Ended(t, "not_found")
    /\ Len(rawItems[t]) = 2
    /\ rawItems[t][1].product_id \in DOMAIN Products
    /\ rawItems[t][1].quantity = Units(1)
    /\ Sufficient(<<rawItems[t][1]>>, before[t])
    /\ rawItems[t][2].product_id = UnknownProductId
    /\ rawItems[t][2].quantity = Units(1)

(***************************************************************************)
(* C14: on insufficient stock the error carries one shortfall entry for    *)
(* every raw material whose required amount exceeds its available amount,  *)
(* and for no other material; each entry holds the material id, name,      *)
(* required, available and unit, with required > available.                *)
(***************************************************************************)
Shortfalls(raw, store) ==
  {m \in DOMAIN store.RawMaterials :
     AggregatedRequirement(raw, store.ProductIngredients, m) > Quantity(store, m)}

C14_ShortfallListExact ==
  \A t \in Txs :
    Ended(t, "insufficient") =>
      LET details == result[t].details
      IN /\ {details[i].raw_material_id : i \in 1..Len(details)}
              = Shortfalls(rawItems[t], before[t])
         /\ Len(details) = Cardinality(Shortfalls(rawItems[t], before[t]))
         /\ \A i \in 1..Len(details) :
              LET m == details[i].raw_material_id
              IN /\ DOMAIN details[i] = {"raw_material_id", "raw_material_name",
                                         "required", "available", "unit"}
                 /\ details[i].raw_material_name = before[t].RawMaterials[m].name
                 /\ details[i].unit = before[t].RawMaterials[m].unit
                 /\ details[i].available = Quantity(before[t], m)
                 /\ details[i].required =
                      AggregatedRequirement(rawItems[t], before[t].ProductIngredients, m)
                 /\ details[i].required > details[i].available

\* both raw materials are short at once: the list has two entries
C14_Witness ==
  \E t \in Txs :
    /\ Ended(t, "insufficient")
    /\ Len(result[t].details) = 2
    /\ Shortfalls(rawItems[t], before[t]) = DOMAIN RawMaterials

(***************************************************************************)
(* C15: the errors that reach the checkout caller tell a concurrency       *)
(* conflict from the business-rule aborts (insufficient stock, product not *)
(* found) and from validation errors: the response of a failed request     *)
(* carries the error of its own outcome and of no other of the four, so    *)
(* the conflict is recognised exactly when it happened, and only           *)
(* insufficient stock carries the shortfall detail.                        *)
(***************************************************************************)
ErrorKinds == {"validation", "not_found", "insufficient", "conflict"}

\* the error texts a caller can meet for one kind of outcome
MessagesOf(kind) ==
  CASE kind = "validation" -> {EmptyCartError.message, InvalidItemError.message}
    [] kind = "not_found" -> {ProductMissingError.message}
    [] kind = "insufficient" -> {InsufficientError(<<>>).message}
    [] kind = "conflict" -> {StockChangedError.message}

Failed(t) == pc[t] = "done" /\ result[t].kind # "ok"

C15_ErrorKindsDistinguished ==
  \A t \in Txs :
    Failed(t) =>
      /\ \A kind \in ErrorKinds :
           (Response(t).error \in MessagesOf(kind)) <=> (result[t].kind = kind)
      /\ (Response(t).details # <<>>) <=> (result[t].kind = "insufficient")

\* the same cart sent twice: one request committed, the other lost the race
\* and its response carries the conflict text and no detail
C15_Witness ==
  \E t, u \in Txs :
    /\ Ended(t, "conflict") /\ Ended(u, "ok")
    /\ Response(t).error = StockChangedError.message
    /\ Response(t).details = <<>>

(***************************************************************************)
(* C17: a successful checkout returns the created sales, total_bill equal  *)
(* to the sum of their total_price, total_profit equal to the sum of their *)
(* total_profit, total_items equal to the sum of the line quantities, and  *)
(* transaction_count equal to the number of Sales rows created, which is   *)
(* the number of distinct products in the cart.                            *)
(***************************************************************************)
C17_ReturnedTotals ==
  \A t \in Txs :
    Ended(t, "ok") =>
      LET created == SalesOf(after[t].Sales, t)
          returned == ReturnValue(t)
      IN /\ {returned.sales[i] : i \in 1..Len(returned.sales)} = created
         /\ Len(returned.sales) = Cardinality(created)
         /\ returned.total_bill = SumOver([s \in created |-> s.total_price], created)
         /\ returned.total_profit = SumOver([s \in created |-> s.total_profit], created)
         /\ returned.total_items =
              SumSeq([i \in 1..Len(rawItems[t]) |-> rawItems[t][i].quantity])
         /\ returned.transaction_count = Cardinality(created)
         /\ returned.transaction_count = Cardinality(DistinctProducts(rawItems[t]))

\* the cart [A x2, B x1] at prices 5 and 3 and costs 3 and 2
C17_Witness ==
  \E t \in Txs :
    /\ Ended(t, "ok")
    /\ rawItems[t] = CartA2B1
    /\ ReturnValue(t).total_bill = Units(13)
    /\ ReturnValue(t).total_profit = Units(5)
    /\ ReturnValue(t).total_items = Units(3)
    /\ ReturnValue(t).transaction_count = 2

(***************************************************************************)
(* C18: a failed checkout repeated with identical input and no intervening *)
(* state change fails identically: the same error kind and, for            *)
(* insufficient stock, the same shortfall list; neither call changes the   *)
(* store.                                                                  *)
(***************************************************************************)
\* u is t sent again with the store as t left it
RepeatOf(u, t) ==
  /\ u # t
  /\ pc[t] = "done" /\ pc[u] = "done"
  /\ rawItems[u] = rawItems[t]
  /\ before[u] = after[t]

CatalogCarts ==
  {<<[product_id |-> p, quantity |-> Units(1)]>> : p \in {"A", NewProductId}}
    \cup {<<[product_id |-> "A", quantity |-> Units(1)], [product_id |-> "A", quantity |-> Units(1)]>>}

NextCatalog ==
  \/ \E raw \in CatalogCarts : Request(raw)
  \/ \E t \in Txs : SelectProducts(t)
  \/ \E t \in Txs : SelectIngredients(t)
  \/ \E t \in Txs : InsertSale(t)
  \/ \E t \in Txs : UpdateSellCount(t)
  \/ \E t \in Txs : Decrement(t)
  \/ \E t \in Txs : Commit(t)
  \/ \E t \in Txs : Rollback(t)
  \/ \E body \in CreateBodies : CreateProductRequest(body)
  \/ CreateProductTx
  \/ \E id \in {"A", NewProductId}, body \in UpdateBodies : UpdateProductRead(id, body)
  \/ UpdateProductTx
  \/ \E c \in MaterialCostTokens : UpdateRawMaterialRead("M", Undefined, c)
  \/ UpdateRawMaterialWrite
  \/ \E id \in {s.id : s \in Sales} : DeleteSale(id)

SpecCatalog == Init /\ [][NextCatalog]_vars

(***************************************************************************)
(* C16: once a Sale is recorded, no later change of the product's          *)
(* selling_price or manufacturing_cost (product update, ingredient change, *)
(* raw-material cost change) alters that sale's recorded total_price or    *)
(* total_profit.  A sale an administrator deleted is reported no more.     *)
(***************************************************************************)
C16_RecordedTotalsKept ==
  [][ \A s \in SalesReport :
        \A r \in SalesReport' :
          r.id = s.id => r.total_price = s.total_price /\ r.total_profit = s.total_profit ]_vars

\* a sale whose product was given another price or cost since, the unit cost
\* of its raw material having changed too
C16_Witness ==
  \E s \in SalesReport :
    /\ s.total_profit #
         s.quantity * (Products[s.product_id].selling_price
                         - Products[s.product_id].manufacturing_cost)
    /\ RawMaterials["M"].cost_per_unit # store0.RawMaterials["M"].cost_per_unit
    /\ prodPc = "idle" /\ prodCount > 0

(***************************************************************************)
(* C19: after any sequence of product create and update operations, a      *)
(* product's manufacturing_cost equals the sum of quantity_used times      *)
(* cost_per_unit over its ingredient rows as of the last write of its      *)
(* ingredient set (0 for an empty set); manufacturing_cost cannot be set   *)
(* independently of the ingredient set.                                    *)
(***************************************************************************)
C19_CostFollowsIngredients ==
  \A p \in DOMAIN Products : Products[p].manufacturing_cost = ingredientCost[p]

(***************************************************************************)
(* C20: after any sequence of product create and update operations there   *)
(* is at most one ProductIngredient row per (product, raw material) pair,  *)
(* and specifying an ingredient again for a product replaces the prior     *)
(* quantity_used instead of adding a second row.                           *)
(***************************************************************************)
RowsOfPair(rows, p, m) ==
  {k \in 1..Len(rows) : rows[k].product_id = p /\ rows[k].raw_material_id = m}

OneRowPerPair(rows) ==
  \A i, j \in 1..Len(rows) :
    rows[i].product_id = rows[j].product_id
      /\ rows[i].raw_material_id = rows[j].raw_material_id => i = j

\* a list setProductIngredients takes: known materials, each named once,
\* with a positive quantity_used
AcceptedList(list) ==
  /\ Len(list) > 0
  /\ \A i \in 1..Len(list) :
       list[i].raw_material_id \in DOMAIN RawMaterials /\ list[i].quantity_used > 0
  /\ \A i, j \in 1..Len(list) :
       list[i].raw_material_id = list[j].raw_material_id => i = j

\* the transaction of an update whose body carries an accepted list
WritesIngredients ==
  /\ prodPc = "update" /\ prodPc' = "idle"
  /\ "ingredients" \in DOMAIN prodReq.body
  /\ AcceptedList(prodReq.body.ingredients)

C20_OneRowPerPairReplaced ==
  /\ []OneRowPerPair(ProductIngredients)
  /\ [][ WritesIngredients =>
           \A i \in 1..Len(prodReq.body.ingredients) :
             LET item == prodReq.body.ingredients[i]
                 prior == RowsOfPair(ProductIngredients, prodReq.id, item.raw_material_id)
                 pair == RowsOfPair(ProductIngredients', prodReq.id, item.raw_material_id)
             IN prior # {} =>
                  /\ Cardinality(pair) = 1
                  /\ \A k \in pair :
                       ProductIngredients'[k].quantity_used = item.quantity_used ]_vars

\* product A, which had the row (A, M, 3), has the one row (A, M, 2) after an
\* update that named M again
C20_Witness ==
  /\ prodPc = "idle" /\ prodCount > 0
  /\ \E k \in 1..Len(ProductIngredients) :
       /\ ProductIngredients[k].product_id = "A"
       /\ ProductIngredients[k].raw_material_id = "M"
       /\ ProductIngredients[k].quantity_used = 2
  /\ Cardinality(RowsOfPair(ProductIngredients, "A", "M")) = 1

(***************************************************************************)
(* GET /api/raw-materials/low-stock                                        *)
(***************************************************************************)
\* the rows of the table as a scan meets them
RECURSIVE TableScan(_, _)
TableScan(materials, ids) ==
  IF ids = {} THEN <<>>
  ELSE LET m == CHOOSE x \in ids : TRUE
       IN <<[id |-> m] @@ materials[m]>> \o TableScan(materials, ids \ {m})

\* WHERE quantity_available <= low_stock_threshold
IsLowStock_AtThreshold(row) == row.quantity_available <= row.low_stock_threshold

\* WHERE quantity_available < low_stock_threshold
IsLowStock(row) == row.quantity_available < row.low_stock_threshold

\* the row is put behind the rows that are not greater
RECURSIVE InsertAscending(_, _)
InsertAscending(sorted, row) ==
  IF sorted = <<>> THEN <<row>>
  ELSE IF Head(sorted).quantity_available <= row.quantity_available
       THEN <<Head(sorted)>> \o InsertAscending(Tail(sorted), row)
       ELSE <<row>> \o sorted

\* ORDER BY quantity_available ASC; rows of equal quantity stay in scan order,
\* an order the statement does not fix
RECURSIVE OrderByQuantity(_, _)
OrderByQuantity(rows, sorted) ==
  IF rows = <<>> THEN sorted
  ELSE OrderByQuantity(Tail(rows), InsertAscending(sorted, Head(rows)))

\* res.json({ count: items.length, items })
LowStock(materials) ==
  LET items == OrderByQuantity(SelectSeq(TableScan(materials, DOMAIN materials), IsLowStock), <<>>)
  IN [count |-> Len(items), items |-> items]

(***************************************************************************)
(* Specification: one checkout over raw materials with any thresholds      *)
(***************************************************************************)
Thresholds == {Units(3), Units(6), Units(10)}   \* low_stock_threshold values of a raw material

InitThresholds ==
  /\ Products = InitProducts
  /\ \E qM \in InitStockM, qN \in InitStockN, thM \in Thresholds, thN \in Thresholds :
       RawMaterials =
         [m \in MaterialIds |->
            [InitRawMaterials(qM, qN)[m] EXCEPT
               !.low_stock_threshold = IF m = "M" THEN thM ELSE thN]]
  /\ ProductIngredients = InitIngredients
  /\ Sales = {}
  /\ pc = [t \in Txs |-> "idle"]
  /\ rawItems = [t \in Txs |-> <<>>]
  /\ parsedItems = [t \in Txs |-> <<>>]
  /\ productById = [t \in Txs |-> <<>>]
  /\ ingredientRows = [t \in Txs |-> <<>>]
  /\ requiredAmounts = [t \in Txs |-> <<>>]
  /\ loopIdx = [t \in Txs |-> 0]
  /\ txSales = [t \in Txs |-> {}]
  /\ txSellCount = [t \in Txs |-> <<>>]
  /\ txQuantity = [t \in Txs |-> <<>>]
  /\ locks = [t \in Txs |-> {}]
  /\ result = [t \in Txs |-> NoResult]
  /\ before = [t \in Txs |-> NoStore]
  /\ after = [t \in Txs |-> NoStore]
  /\ store0 = Store
  /\ adminPc = "idle"
  /\ adminReq = <<>>
  /\ adminExisting = <<>>
  /\ adminCount = 0
  /\ prodPc = "idle"
  /\ prodReq = <<>>
  /\ prodExisting = <<>>
  /\ prodCount = 0
  /\ prodResponse = NoResponse
  /\ ingredientCost =
       [p \in DOMAIN Products |-> IngredientsCost(ProductIngredients, RawMaterials, p)]
  /\ txCalls = [c \in Txs |-> NoCall]
  /\ initPromise = "undefined"
  /\ initStarts = 0
  /\ requests = [r \in Requests |-> NoRequest]

NextLowStock ==
  \/ \E raw \in Carts : Request(raw)
  \/ \E t \in Txs : SelectProducts(t)
  \/ \E t \in Txs : SelectIngredients(t)
  \/ \E t \in Txs : InsertSale(t)
  \/ \E t \in Txs : UpdateSellCount(t)
  \/ \E t \in Txs : Decrement(t)
  \/ \E t \in Txs : Commit(t)
  \/ \E t \in Txs : Rollback(t)

SpecLowStock == InitThresholds /\ [][NextLowStock]_vars

(***************************************************************************)
(* C21: the low-stock query returns exactly the raw materials with         *)
(* quantity_available strictly less than low_stock_threshold (a material   *)
(* exactly at its threshold is not listed), in ascending order of          *)
(* quantity_available, and count equals the number of items returned.      *)
(***************************************************************************)
C21_LowStockExact ==
  LET response == LowStock(RawMaterials)
      items == response.items
  IN /\ {items[i].id : i \in 1..Len(items)} =
          {m \in DOMAIN RawMaterials :
             RawMaterials[m].quantity_available < RawMaterials[m].low_stock_threshold}
     /\ \A i, j \in 1..Len(items) : i # j => items[i].id # items[j].id
     /\ \A i \in 1..Len(items) :
          items[i] = [id |-> items[i].id] @@ RawMaterials[items[i].id]
     /\ \A i, j \in 1..Len(items) :
          i < j => items[i].quantity_available <= items[j].quantity_available
     /\ response.count = Len(items)

\* a sale brought M down to its threshold exactly: M is not listed, N is
C21_Witness ==
  /\ Ended(1, "ok")
  /\ RawMaterials["M"].quantity_available = RawMaterials["M"].low_stock_threshold
  /\ before[1].RawMaterials["M"].quantity_available > RawMaterials["M"].quantity_available
  /\ LowStock(RawMaterials).count = 1
  /\ LowStock(RawMaterials).items[1].id = "N"

(***************************************************************************)
(* C22: each Sale row created by checkout has total_price = quantity x     *)
(* selling_price and total_profit = quantity x (selling_price -            *)
(* manufacturing_cost), using the product's values read inside the         *)
(* checkout transaction, and quantity equal to the merged quantity of that *)
(* product in the cart.                                                    *)
(***************************************************************************)
\* the Sales rows request t has inserted, committed or not
InsertedBy(t) == SalesOf(Sales \cup txSales[t], t)

\* the Products query of request t
ReadsProducts(t) == pc[t] = "select_products" /\ pc'[t] # "select_products"

C22_SaleRowComputed ==
  /\ [](\A t \in Txs : \A s \in InsertedBy(t) :
          LET p == productById[t][s.product_id]
          IN /\ s.total_price = s.quantity * p.selling_price
             /\ s.total_profit = s.quantity * (p.selling_price - p.manufacturing_cost)
             /\ s.quantity = LineQuantity(rawItems[t], s.product_id))
  /\ [][ \A t \in Txs :
           ReadsProducts(t) =>
             \A p \in DOMAIN productById'[t] :
               /\ productById'[t][p].selling_price = Products[p].selling_price
               /\ productById'[t][p].manufacturing_cost = Products[p].manufacturing_cost ]_vars

\* a cart of two lines for A sold at the price a product update had set after
\* the request was made, the price having been 5 when the request came in
C22_Witness ==
  \E s \in Sales :
    /\ s.id[1] = 1 /\ s.product_id = "A"
    /\ Len(rawItems[1]) = 2
    /\ s.quantity = Units(2)
    /\ before[1].Products["A"].selling_price = 5
    /\ productById[1]["A"].selling_price = 4
    /\ s.total_price = Units(2) * 4
    /\ s.total_profit = Units(2) * (4 - 3)

(***************************************************************************)
(* C23: sell_count of a product is monotonic: a successful checkout        *)
(* increases it by exactly the merged line quantity of that product, and   *)
(* no operation (failed checkout, product update, sale deletion) ever      *)
(* decreases it.                                                           *)
(***************************************************************************)
Commits(t) == pc[t] = "commit" /\ pc'[t] = "done"

C23_SellCountMonotonic ==
  [][ \A p \in DOMAIN Products :
        /\ p \in DOMAIN Products'
        /\ Products'[p].sell_count >= Products[p].sell_count
        /\ \A t \in Txs :
             Commits(t) =>
               Products'[p].sell_count =
                 Products[p].sell_count + LineQuantity(rawItems[t], p)
        /\ (\A t \in Txs : ~Commits(t)) =>
             Products'[p].sell_count = Products[p].sell_count ]_vars

\* a cart of two lines for A was sold, then A was updated and the sale was
\* deleted: sell_count of A is the 2 of the cart
C23_Witness ==
  /\ Ended(1, "ok")
  /\ Len(rawItems[1]) = 2
  /\ before[1].Products["A"].sell_count = 0
  /\ prodPc = "idle" /\ prodCount > 0
  /\ Products["A"].selling_price # after[1].Products["A"].selling_price
  /\ Sales = {}
  /\ Products["A"].sell_count = Units(2)

(***************************************************************************)
(* Specification: concurrent checkouts whose statements all complete       *)
(*                                                                         *)
(* Every statement a request awaits is answered: the store executes a      *)
(* statement that waits for no lock, lets a waiting UPDATE go on when the  *)
(* lock is released, and its deadlock detector fails one statement of a    *)
(* wait cycle; the event loop then runs the continuation.  Nothing makes   *)
(* a request arrive.                                                       *)
(***************************************************************************)
\* carts of single units, in every order of their lines
UnitCarts == {c \in Carts : \A i \in 1..Len(c) : c[i].quantity = Units(1)}

\* the next statement of request t, or the end of its transaction
Step(t) ==
  \/ SelectProducts(t)
  \/ SelectIngredients(t)
  \/ InsertSale(t)
  \/ UpdateSellCount(t)
  \/ Decrement(t)
  \/ Deadlock(t)
  \/ Commit(t)
  \/ Rollback(t)

NextLive ==
  \/ \E t \in Txs, raw \in UnitCarts : Start(t, raw)
  \/ \E t \in Txs : SelectProducts(t)
  \/ \E t \in Txs : SelectIngredients(t)
  \/ \E t \in Txs : InsertSale(t)
  \/ \E t \in Txs : UpdateSellCount(t)
  \/ \E t \in Txs : Decrement(t)
  \/ \E t \in Txs : Deadlock(t)
  \/ \E t \in Txs : Commit(t)
  \/ \E t \in Txs : Rollback(t)

SpecLive == Init /\ [][NextLive]_vars /\ \A t \in Txs : WF_vars(Step(t))

(***************************************************************************)
(* C24: every checkout that has started its transaction eventually either  *)
(* fully commits or fully rolls back, under any interleaving with other    *)
(* concurrent checkouts; it never stays blocked forever and never ends in  *)
(* a third state.                                                          *)
(***************************************************************************)
InTransaction(t) == pc[t] \notin {"idle", "done"}

\* nothing of the transaction is left open
Closed(t) ==
  /\ txSales[t] = {} /\ txSellCount[t] = <<>> /\ txQuantity[t] = <<>>
  /\ locks[t] = {}

FullyCommitted(t) ==
  /\ pc[t] = "done" /\ result[t].kind = "ok" /\ Closed(t)
  /\ Cardinality(SalesOf(after[t].Sales, t)) = Cardinality(DistinctProducts(rawItems[t]))
  /\ \A p \in DOMAIN after[t].Products :
       after[t].Products[p].sell_count >= LineQuantity(rawItems[t], p)

FullyRolledBack(t) ==
  /\ pc[t] = "done" /\ result[t].kind \notin {"ok", "none"} /\ Closed(t)
  /\ SalesOf(after[t].Sales, t) = {}
  /\ SalesOf(Sales, t) = {}

C24_CheckoutEnds ==
  /\ \A t \in Txs : InTransaction(t) ~> (FullyCommitted(t) \/ FullyRolledBack(t))
  /\ [](\A t \in Txs : pc[t] = "done" => (FullyCommitted(t) \/ FullyRolledBack(t)))

\* the two requests waited for each other's row: one was failed by the store
\* and rolled back, the other committed
C24_Witness ==
  \E t, u \in Txs :
    /\ Ended(t, "deadlock") /\ FullyRolledBack(t)
    /\ Ended(u, "ok") /\ FullyCommitted(u)

(***************************************************************************)
(* C25: two concurrent checkouts never deadlock on row locks: whenever two *)
(* checkouts update the same Products rows (sell_count) or the same        *)
(* RawMaterials rows (conditional decrement), they take those row locks in *)
(* an order that cannot form a wait cycle, whatever the order of lines in  *)
(* the two carts.                                                          *)
(***************************************************************************)
WaitCycle(t, u) ==
  /\ t # u
  /\ Waiting(t) /\ NeededRow(t) \in locks[u]
  /\ Waiting(u) /\ NeededRow(u) \in locks[t]

C25_NoWaitCycle ==
  /\ \A t, u \in Txs : ~WaitCycle(t, u)
  /\ \A t \in Txs : result[t].kind # "deadlock"

(***************************************************************************)
(* C26: a raw-material update request that does not supply                 *)
(* quantity_available leaves quantity_available unchanged, also when a     *)
(* checkout commits a decrement of that material between the update's read *)
(* of the existing row and its write: the checkout's decrement is not      *)
(* lost.                                                                   *)
(***************************************************************************)
\* the UPDATE of a request whose body has no quantity_available
WritesWithoutQuantity ==
  /\ adminPc = "update" /\ adminPc' = "idle"
  /\ adminReq.quantity_available = Undefined

C26_UpdateKeepsQuantity ==
  [][ WritesWithoutQuantity =>
        RawMaterials'[adminReq.id].quantity_available =
          RawMaterials[adminReq.id].quantity_available ]_vars

(***************************************************************************)
(* C27: under any interleaving of concurrent successful checkouts of the   *)
(* same product, no sell_count increment is lost: the final sell_count     *)
(* equals the initial value plus the sum of the quantities of all          *)
(* committed checkouts of that product, and equals the sum of quantity     *)
(* over the Sales rows they created.                                       *)
(***************************************************************************)
SoldQuantity(p) ==
  LET rows == {s \in Sales : s.product_id = p}
  IN SumOver([s \in rows |-> s.quantity], rows)

C27_NoLostIncrement ==
  \A p \in DOMAIN Products :
    /\ Products[p].sell_count =
         store0.Products[p].sell_count
           + SumOver([t \in Txs |-> LineQuantity(rawItems[t], p)], CommittedTxs)
    /\ Products[p].sell_count = store0.Products[p].sell_count + SoldQuantity(p)

\* two checkouts of A that both began before either had committed, both committed
C27_Witness ==
  \E t, u \in Txs :
    /\ t # u
    /\ Ended(t, "ok") /\ Ended(u, "ok")
    /\ LineQuantity(rawItems[t], "A") > 0 /\ LineQuantity(rawItems[u], "A") > 0
    /\ before[t].Sales = {} /\ before[u].Sales = {}
    /\ Products["A"].sell_count =
         LineQuantity(rawItems[t], "A") + LineQuantity(rawItems[u], "A")

(***************************************************************************)
(* withTransaction (db.js:56-85), statement by statement.  The callback fn *)
(* is any callback: it returns a value or throws.  Each statement sent on  *)
(* the client (BEGIN, COMMIT, ROLLBACK) succeeds or throws.                *)
(***************************************************************************)

\* the value the callback returns and the errors the statements throw
CallbackValue == "value"
ErrorOf(statement) == "error of " \o statement

\* catch (err) { try { ROLLBACK } catch (_) {} throw err; }: the error that
\* is thrown after the ROLLBACK, whether the ROLLBACK succeeded or not
RethrownAfterRollback_Unprotected(err, ok) == IF ok THEN err ELSE ErrorOf("ROLLBACK")
RethrownAfterRollback(err, ok) == err

\* const client = await getPool().connect(): outside the try, so a failed
\* connect throws to the caller with no client to release
ClientConnect(c, ok) ==
  /\ txCalls[c].pc = "idle"
  /\ txCalls' = [txCalls EXCEPT ![c] =
       IF ok THEN [@ EXCEPT !.pc = "BEGIN"]
       ELSE [@ EXCEPT !.pc = "ended", !.failed = {"connect"},
                      !.outcome = [kind |-> "thrown", value |-> ErrorOf("connect")]]]
  /\ UNCHANGED <<dbVars, txVars, store0, serverVars, adminVars, catalogVars>>

\* await client.query('BEGIN')
QueryBegin(c, ok) ==
  /\ txCalls[c].pc = "BEGIN"
  /\ txCalls' = [txCalls EXCEPT ![c] =
       IF ok THEN [@ EXCEPT !.pc = "fn", !.statements = Append(@, "BEGIN")]
       ELSE [@ EXCEPT !.pc = "ROLLBACK", !.statements = Append(@, "BEGIN"),
                      !.failed = @ \cup {"BEGIN"}, !.err = ErrorOf("BEGIN")]]
  /\ UNCHANGED <<dbVars, txVars, store0, serverVars, adminVars, catalogVars>>

\* const value = await fn(tx)
RunCallback(c, ok) ==
  /\ txCalls[c].pc = "fn"
  /\ txCalls' = [txCalls EXCEPT ![c] =
       IF ok THEN [@ EXCEPT !.pc = "COMMIT", !.statements = Append(@, "fn")]
       ELSE [@ EXCEPT !.pc = "ROLLBACK", !.statements = Append(@, "fn"),
                      !.failed = @ \cup {"fn"}, !.err = ErrorOf("fn")]]
  /\ UNCHANGED <<dbVars, txVars, store0, serverVars, adminVars, catalogVars>>

\* await client.query('COMMIT'); return value
QueryCommit(c, ok) ==
  /\ txCalls[c].pc = "COMMIT"
  /\ txCalls' = [txCalls EXCEPT ![c] =
       IF ok THEN [@ EXCEPT !.pc = "release", !.statements = Append(@, "COMMIT")]
       ELSE [@ EXCEPT !.pc = "ROLLBACK", !.statements = Append(@, "COMMIT"),
                      !.failed = @ \cup {"COMMIT"}, !.err = ErrorOf("COMMIT")]]
  /\ UNCHANGED <<dbVars, txVars, store0, serverVars, adminVars, catalogVars>>

\* catch (err) { try { await client.query('ROLLBACK') } catch (_) {} throw err }
QueryRollback(c, ok) ==
  /\ txCalls[c].pc = "ROLLBACK"
  /\ txCalls' = [txCalls EXCEPT ![c] =
       [@ EXCEPT !.pc = "release", !.statements = Append(@, "ROLLBACK"),
                 !.failed = IF ok THEN @ ELSE @ \cup {"ROLLBACK"},
                 !.err = RethrownAfterRollback(@, ok)]]
  /\ UNCHANGED <<dbVars, txVars, store0, serverVars, adminVars, catalogVars>>

\* finally { client.release() }, then the return or the throw completes
ClientRelease(c) ==
  /\ txCalls[c].pc = "release"
  /\ txCalls' = [txCalls EXCEPT ![c] =
       [@ EXCEPT !.pc = "ended", !.releases = @ + 1,
                 !.outcome = IF txCalls[c].err = "none"
                             THEN [kind |-> "returned", value |-> CallbackValue]
                             ELSE [kind |-> "thrown", value |-> txCalls[c].err]]]
  /\ UNCHANGED <<dbVars, txVars, store0, serverVars, adminVars, catalogVars>>

NextTransaction ==
  \E c \in Txs :
    \/ \E ok \in BOOLEAN : ClientConnect(c, ok)
    \/ \E ok \in BOOLEAN : QueryBegin(c, ok)
    \/ \E ok \in BOOLEAN : RunCallback(c, ok)
    \/ \E ok \in BOOLEAN : QueryCommit(c, ok)
    \/ \E ok \in BOOLEAN : QueryRollback(c, ok)
    \/ ClientRelease(c)

SpecTransaction == Init /\ [][NextTransaction]_vars

(***************************************************************************)
(* C28                                                                     *)
(***************************************************************************)

Occurrences(seq, x) == Cardinality({i \in 1..Len(seq) : seq[i] = x})
\* the statement of the try block that threw, if one did
ThrownInTry(call) == call.failed \cap {"BEGIN", "fn", "COMMIT"}
CallbackReturned(call) == Occurrences(call.statements, "fn") = 1 /\ "fn" \notin call.failed
\* the try/catch is over: only the release, or nothing, remains
AfterTry(call) == call.pc \in {"release", "ended"} /\ "connect" \notin call.failed

\* C28: withTransaction issues BEGIN first; it issues COMMIT exactly when the
\* callback has returned normally, and ROLLBACK, once and as the last
\* statement, exactly when BEGIN, the callback or COMMIT threw.  The caller
\* gets the callback's value when nothing threw and otherwise the error that
\* was thrown first, also when the ROLLBACK failed.  The client is released
\* exactly once by the time the call ends, and never before the try/catch is
\* over; a call whose connect failed has no client and releases nothing.
C28_TransactionProtocol ==
  \A c \in Txs :
    LET call == txCalls[c]
        n == Len(call.statements)
    IN /\ n >= 1 => call.statements[1] = "BEGIN"
       /\ Occurrences(call.statements, "BEGIN") <= 1
       /\ Occurrences(call.statements, "COMMIT") <= 1
       /\ \A i \in 1..n :
            /\ call.statements[i] = "fn" => i = 2 /\ "BEGIN" \notin call.failed
            /\ call.statements[i] = "COMMIT" =>
                 i = 3 /\ call.statements[2] = "fn" /\ CallbackReturned(call)
            /\ call.statements[i] = "ROLLBACK" => i = n /\ ThrownInTry(call) # {}
       /\ AfterTry(call) =>
            /\ CallbackReturned(call) <=> Occurrences(call.statements, "COMMIT") = 1
            /\ ThrownInTry(call) # {} <=> Occurrences(call.statements, "ROLLBACK") = 1
            /\ Cardinality(ThrownInTry(call)) <= 1
       /\ call.pc = "ended" /\ "connect" \notin call.failed =>
            /\ call.releases = 1
            /\ ThrownInTry(call) = {} =>
                 call.outcome = [kind |-> "returned", value |-> CallbackValue]
            /\ \A statement \in ThrownInTry(call) :
                 call.outcome = [kind |-> "thrown", value |-> ErrorOf(statement)]
       /\ call.pc # "ended" => call.releases = 0 /\ call.outcome.kind = "none"
       /\ "connect" \in call.failed =>
            call.releases = 0 /\ call.statements = <<>> /\ call.outcome.kind = "thrown"

\* one call ended by rethrowing the callback's error although its ROLLBACK
\* failed, while the other committed and returned the callback's value
C28_Witness ==
  \E c, d \in Txs :
    /\ txCalls[c].pc = "ended"
    /\ txCalls[c].failed = {"fn", "ROLLBACK"}
    /\ txCalls[c].statements = <<"BEGIN", "fn", "ROLLBACK">>
    /\ txCalls[c].releases = 1
    /\ txCalls[d].pc = "ended"
    /\ txCalls[d].statements = <<"BEGIN", "fn", "COMMIT">>
    /\ txCalls[d].outcome.kind = "returned"

(***************************************************************************)
(* C29: product create and update are all-or-nothing with respect to an    *)
(* invalid ingredient list (missing raw_material_id, quantity_used <= 0,   *)
(* duplicate raw material, unknown raw material): on such an error no      *)
(* Product row is created by a create, and an update leaves the product's  *)
(* previous ingredient rows and manufacturing_cost unchanged, although the *)
(* previous rows were deleted earlier in the same transaction.             *)
(***************************************************************************)
InvalidList(list) ==
  \E i \in 1..Len(list) :
    \/ list[i].raw_material_id = ""
    \/ list[i].quantity_used <= 0
    \/ \E j \in 1..(i - 1) : list[j].raw_material_id = list[i].raw_material_id
    \/ list[i].raw_material_id \notin DOMAIN RawMaterials

IngredientErrors ==
  {"Each ingredient must include raw_material_id.",
   "Each ingredient quantity_used must be greater than 0.",
   "Duplicate raw material in ingredients.",
   "One or more ingredients reference invalid raw materials."}

RowsOfProduct(rows, p) == SelectSeq(rows, LAMBDA r : r.product_id = p)

\* the transaction of a create or an update whose ingredient list is invalid
RunsWithInvalidList(kind) ==
  /\ prodPc = kind /\ prodPc' = "idle"
  /\ "ingredients" \in DOMAIN prodReq.body
  /\ InvalidList(prodReq.body.ingredients)

C29_InvalidListChangesNothing ==
  [][ /\ RunsWithInvalidList("create") =>
           /\ prodReq.id \notin DOMAIN Products'
           /\ Products' = Products
           /\ ProductIngredients' = ProductIngredients
           /\ prodResponse'.error \in IngredientErrors
      /\ RunsWithInvalidList("update") =>
           /\ RowsOfProduct(ProductIngredients', prodReq.id)
                = RowsOfProduct(ProductIngredients, prodReq.id)
           /\ Products'[prodReq.id].manufacturing_cost
                = Products[prodReq.id].manufacturing_cost
           /\ Products' = Products
           /\ ProductIngredients' = ProductIngredients
           /\ prodResponse'.error \in IngredientErrors ]_vars

\* an update of product A was refused for naming a raw material twice, after
\* it had deleted A's rows and inserted the first of the list: A has the
\* rows and the cost it had
C29_Witness ==
  /\ prodPc = "idle"
  /\ DOMAIN prodExisting # {}
  /\ prodResponse = [status |-> 400, error |-> "Duplicate raw material in ingredients."]
  /\ RowsOfProduct(ProductIngredients, "A") # <<>>
  /\ RowsOfProduct(ProductIngredients, "A") = RowsOfProduct(store0.ProductIngredients, "A")
  /\ Products["A"].manufacturing_cost = store0.Products["A"].manufacturing_cost

(***************************************************************************)
(* Schema initialization (server.js:36-40) and the serverless handlers     *)
(* (part_000, part_001).  A url is the sequence of its characters.         *)
(***************************************************************************)
ApiPrefix == <<"/", "a", "p", "i", "/">>
\* app.use('/api/sales', ...), one of the routers mounted at server.js:25-28
SalesMount == <<"/", "a", "p", "i", "/", "s", "a", "l", "e", "s">>

\* the urls of the requests: an API url, the same in another case, the page
Urls ==
  { <<"/", "a", "p", "i", "/", "s", "a", "l", "e", "s">>,
    <<"/", "A", "P", "I", "/", "s", "a", "l", "e", "s">>,
    <<"/">> }
Handlers == {"part_000", "part_001"}

\* String.prototype.startsWith
startsWith(url, prefix) ==
  Len(url) >= Len(prefix) /\ SubSeq(url, 1, Len(prefix)) = prefix

toLowerCase(url) ==
  [i \in 1..Len(url) |->
     CASE url[i] = "A" -> "a"
       [] url[i] = "P" -> "p"
       [] url[i] = "I" -> "i"
       [] OTHER -> url[i]]

\* app.use(path, router) with the settings of server.js, which leaves
\* 'case sensitive routing' off: the router gets the requests whose path
\* begins with the mount path whatever the case of the letters
MatchesMount(url, mount) ==
  /\ startsWith(toLowerCase(url), mount)
  /\ Len(url) > Len(mount) => url[Len(mount) + 1] = "/"

\* if (req.url && req.url.startsWith('/api/')) in part_000; part_001 waits
\* for every request
WaitsForSchema(handler, url) ==
  \/ handler = "part_001"
  \/ Len(url) > 0 /\ startsWith(url, ApiPrefix)

\* the handler is called: it calls ensureInitialized, which starts
\* initializeSchema when there is no promise yet, and awaits the promise;
\* or it passes the request to the app at once
HandleRequest(r, url, handler) ==
  /\ requests[r].pc = "idle"
  /\ IF WaitsForSchema(handler, url)
     THEN /\ requests' = [requests EXCEPT ![r] =
                 [pc |-> "await", url |-> url, handler |-> handler]]
          /\ IF initPromise = "undefined"
             THEN initPromise' = "pending" /\ initStarts' = initStarts + 1
             ELSE UNCHANGED <<initPromise, initStarts>>
     ELSE /\ requests' = [requests EXCEPT ![r] =
                 [pc |-> "app", url |-> url, handler |-> handler]]
          /\ UNCHANGED <<initPromise, initStarts>>
  /\ UNCHANGED <<dbVars, txVars, store0, txCalls, adminVars, catalogVars>>

\* initializeSchema ends: its promise is fulfilled or rejected for good
SchemaInitialized(ok) ==
  /\ initPromise = "pending"
  /\ initPromise' = IF ok THEN "fulfilled" ELSE "rejected"
  /\ UNCHANGED <<initStarts, requests, dbVars, txVars, store0, txCalls, adminVars, catalogVars>>

\* the await ends: return app(req, res), or the rejection, which part_000
\* answers with status 500 and part_001 lets through to its caller
ResumeRequest(r) ==
  /\ requests[r].pc = "await"
  /\ initPromise \in {"fulfilled", "rejected"}
  /\ requests' = [requests EXCEPT ![r].pc =
       IF initPromise = "fulfilled" THEN "app"
       ELSE IF requests[r].handler = "part_000" THEN "status 500"
       ELSE "rejected"]
  /\ UNCHANGED <<initPromise, initStarts, dbVars, txVars, store0, txCalls, adminVars,
                 catalogVars>>

NextServerless ==
  \/ \E r \in Requests : \E url \in Urls : \E handler \in Handlers :
       HandleRequest(r, url, handler)
  \/ \E ok \in BOOLEAN : SchemaInitialized(ok)
  \/ \E r \in Requests : ResumeRequest(r)

SpecServerless == Init /\ [][NextServerless]_vars

(***************************************************************************)
(* C30                                                                     *)
(***************************************************************************)

\* a request the app hands to an API router
IsApiRequest(url) == MatchesMount(url, SalesMount)

\* C30: within one process initializeSchema is started at most once however
\* many requests call ensureInitialized concurrently, and no API request is
\* passed to the application before that single initialization has completed
\* successfully.
C30_InitializedBeforeApi ==
  /\ initStarts <= 1
  /\ \A r \in Requests :
       requests[r].pc = "app" /\ IsApiRequest(requests[r].url) =>
         initPromise = "fulfilled"

====
